---- MODULE Spec2Model ----
(***************************************************************************)
(* Transaction submission and confirmation flow of cron-backend:           *)
(* SolanaService.signAndSendTransaction / getTxnStatus,                    *)
(* UsersService.transferSpl and TransactionService.createTransaction,      *)
(* over the users and transactions tables of database/schema.sql.          *)
(*                                                                         *)
(* createTransaction is modelled in its sender_uid / receiver_uid form,     *)
(* the one transferSpl and POST /transaction call and schema.sql declares. *)
(*                                                                         *)
(* Every `await` of the code is a suspension point, so each request is a   *)
(* process whose steps (one per awaited store query or RPC call) interleave*)
(* with the steps of the other requests and with the network.              *)
(*                                                                         *)
(* Also modelled: the controllers' body validation in front of both        *)
(* operations, the UsersService account operations (createUser, updateUser,*)
(* registerCronId, onboardUser) and TransactionService's                   *)
(* resolveReceiverIdentifier and getTransactionsByUserId, the controller   *)
(* of GET /transaction/user/:userId, FirebaseAdminService's one-time       *)
(* initialization, POST /user/create, and JwtAuthService with the          *)
(* JwtAccessGuard.                                                         *)
(*                                                                         *)
(* Specifications:                                                         *)
(*   Spec         transferSpl and createTransaction, two clients           *)
(*   SpecFair     one transfer client, one posting client, fair scheduling *)
(*   SpecAccounts account operations next to createTransaction             *)
(*   SpecListing  listings next to createUser and registerCronId           *)
(*   SpecTokens   requests through the controllers, one client             *)
(*   SpecPaging   GET /transaction/user/:userId over tables of 0..MaxRows  *)
(*   SpecStatus   createTransaction with every status argument             *)
(*   SpecCronIds  two clients registering cron ids                         *)
(*   SpecAuth     Firebase initialization, sign-up, guard, token rotation  *)
(***************************************************************************)
EXTENDS Integers, Sequences, FiniteSets, TLC

(* ------------------------------ bounds -------------------------------- *)
(* number of distinct transaction signatures / hashes *)
MaxHash == 2

(* number of rows the transactions table holds before a listing *)
MaxRows == 3

(* number of FirebaseAdminService instances the process constructs *)
MaxServices == 3

(* two requests in flight at once *)
Procs == {"p1", "p2"}
Hashes == 1..MaxHash
NoSig == 0

(* user ids callers can name: u1 has an account, u2 has none *)
UserIds == {"u1", "u2"}
NoUser == ""
Amounts == {5}

(* chain_id passed by transferSpl *)
SolanaChainId == 101

(* ------------------------------ inputs -------------------------------- *)
(* The server key pair's public key, and the fee payers a transaction can  *)
(* declare: the server's key, another key, or (legacy format only) none.   *)
ServerKey == "server"
FeePayers == {"server", "other", "none"}

(* What decodeTransaction makes of an encoded transaction: the bytes parse *)
(* as a versioned transaction, else as a legacy one, else decoding throws. *)
EncodedTxs ==
  {[wire |-> "malformed", feePayer |-> "none"]}
  \cup {[wire |-> "legacy", feePayer |-> f] : f \in FeePayers}
  \cup {[wire |-> "versioned", feePayer |-> f] : f \in FeePayers \ {"none"}}
NoTx == [wire |-> "unset", feePayer |-> "none", recentBlockhash |-> "none",
         signedByServer |-> FALSE]

(* the decoded transaction: it carries the blockhash its sender gave it    *)
(* and not yet the server's signature                                      *)
Decoded(e) ==
  [wire |-> e.wire, feePayer |-> e.feePayer, recentBlockhash |-> "sender",
   signedByServer |-> FALSE]

(* a variant that leaves the sender's blockhash in place *)
AttachNothing(t) == t

(* transaction.recentBlockhash = blockhash *)
AttachBlockhash(t) == [t EXCEPT !.recentBlockhash = "latest"]

(* transaction.sign(feePayer), transaction.sign([feePayer]) *)
SignedByServer(t) == [t EXCEPT !.signedByServer = TRUE]

TokenLists == {<<[amount |-> "1", token_address |-> "mintA"]>>}
NoToken == <<>>

(* token arrays a request body can carry: a well-formed one, the empty     *)
(* array, one whose element has no token_address                           *)
TokenBodies ==
  TokenLists \cup {<<>>, <<[amount |-> "1", token_address |-> ""]>>}

(* POST /transaction: `!Array.isArray(token) || token.length === 0`, then  *)
(* `!t.amount || !t.token_address` for each element, reject the body       *)
PostTransactionAccepts(tk) ==
  /\ Len(tk) # 0
  /\ \A i \in 1..Len(tk) : tk[i].amount # "" /\ tk[i].token_address # ""

(* POST /user/transfer-spl: only `!token` rejects, and no array is falsy *)
TransferSplAccepts(tk) == TRUE

(* status argument of createTransaction: optional *)
StatusArgs == {"none", "failed"}
(* status?: 'pending' | 'completed' | 'failed' *)
AllStatusArgs == {"none", "pending", "completed", "failed"}

(* ------------------------------ state --------------------------------- *)
VARIABLES
  users,         \* users table: the set of user_id values that have a row
  transactions,  \* transactions table: sequence of rows in insertion order
  insertedBy,    \* for each row of transactions, the request that inserted it
  newTransaction, \* per request: the row the insert of createTransaction returned
  chain,         \* network: signature -> what getSignatureStatus reports
  broadcast,     \* signatures the network has accepted from sendRawTransaction
  sentFeePayers, \* fee payers declared by the transactions handed to sendRawTransaction
  op,            \* per request: which operation it runs
  pc,            \* per request: the await it is suspended at
  tx,            \* signAndSendTransaction: the decoded transaction
  req,           \* transferSpl: senderUid, receiverUid, amount, token
  signature,     \* transferSpl: the signature signAndSendTransaction returned
  txnStatus,     \* transferSpl: the last getTxnStatus result
  td,            \* createTransaction: transactionData
  result,        \* what the operation returned or threw to its caller
  ctOut,         \* what createTransaction returned or threw
  calls,         \* per request: calls made so far, and the callee that threw
  profile,       \* users table: user_id -> the other columns of its row
  uarg,          \* per request: arguments of a users / listing operation
  resolved,      \* per request: what resolveReceiverIdentifier returned, whether
                 \* its lookup met a store error, and whether the users table
                 \* is as it was at the lookup
  listing,       \* per request: what getTransactionsByUserId returned
  firebaseApp,   \* the Firebase apps of the process and the FirebaseAdminService
                 \* instances constructed
  jwtConfig,     \* JWT_ACCESS_TOKEN_SECRET and JWT_REFRESH_TOKEN_SECRET
  issued,        \* the tokens generateTokenPair has returned
  session        \* per request: the id token and JWT it carries, the user
                 \* createUser returned (or why its insert was refused),
                 \* the tokens it was given

vars == <<users, transactions, insertedBy, newTransaction, chain, broadcast, sentFeePayers, op, pc, tx, req,
          signature, txnStatus, td, result, ctOut, calls,
          profile, uarg, resolved, listing, firebaseApp, jwtConfig, issued, session>>

(* the state of the account operations and of the transaction listing *)
userVars == <<profile, uarg, resolved, listing>>

(* the state of FirebaseAdminService and JwtAuthService *)
authVars == <<firebaseApp, jwtConfig, issued, session>>

NoReq == [senderUid |-> NoUser, receiverUid |-> NoUser, amount |-> 0,
          token |-> NoToken]
NoTd == [transaction_hash |-> NoSig, sender_uid |-> NoUser, receiver_uid |-> NoUser,
         amount |-> 0, token |-> NoToken, chain_id |-> 0, status |-> "none"]
NoResult == [kind |-> "none", success |-> FALSE, message |-> "", signature |-> NoSig]
NoCalls == [getLatestBlockhash |-> 0, sendRawTransaction |-> 0,
            createTransaction |-> 0, threw |-> ""]

(* RpcResponseAndContext<SignatureStatus | null> *)
Unpolled == [value |-> "unpolled", confirmationStatus |-> "none", err |-> FALSE]
NullStatus == [value |-> "null", confirmationStatus |-> "none", err |-> FALSE]
Unseen == [confirmationStatus |-> "none", err |-> FALSE]

Returned(ok, msg, sig) ==
  [kind |-> "return", success |-> ok, message |-> msg, signature |-> sig]
Thrown(msg) ==
  [kind |-> "throw", success |-> FALSE, message |-> msg, signature |-> NoSig]
(* the catch of a controller: HttpException INTERNAL_SERVER_ERROR carrying  *)
(* error.message                                                           *)
InternalServerError(message) == Thrown("HttpException 500: " \o message)

(* ------------------------------ helpers ------------------------------- *)
(* a variant that checks the fee payer of legacy transactions only *)
FeePayerCheckedLegacyOnly(t) ==
  t.wire = "versioned" \/ (t.feePayer # "none" /\ t.feePayer = ServerKey)

(* the fee-payer check of signAndSendTransaction: legacy                   *)
(* `!transaction.feePayer || !transaction.feePayer.equals(publicKey)`,     *)
(* versioned `!staticAccountKeys[0].equals(publicKey)`                     *)
FeePayerMatches(t) == t.feePayer # "none" /\ t.feePayer = ServerKey

(* getSignatureStatus: null for a signature the network does not report *)
SignatureStatus(sig) ==
  IF chain[sig].confirmationStatus = "none"
  THEN NullStatus
  ELSE [value |-> "status",
        confirmationStatus |-> chain[sig].confirmationStatus,
        err |-> chain[sig].err]

(* a variant of the loop that does not look at the confirmation status *)
LoopIgnoresFinalized(st) == st.value # "null"

(* the while condition of transferSpl *)
LoopContinues(st) == st.value # "null" /\ st.confirmationStatus # "finalized"

(* a variant that never sees the on-chain error *)
TransferFailedNever(st) == FALSE

(* the if condition of transferSpl after the loop *)
TransferFailed(st) == st.value # "null" /\ st.err

(* the transactionData transferSpl hands to createTransaction *)
TransferData(sig, r) ==
  [transaction_hash |-> sig, sender_uid |-> r.senderUid,
   receiver_uid |-> r.receiverUid, amount |-> r.amount, token |-> r.token,
   chain_id |-> SolanaChainId, status |-> "completed"]

(* a variant whose lookup always finds a row *)
UserExistsAlways(store, id) == TRUE

(* .from('users').select('user_id').eq('user_id', id).single() has data *)
UserExists(store, id) == id \in store

(* .from('transactions').eq('transaction_hash', h).single() has data *)
RowsWithHash(store, h) == {i \in DOMAIN store : store[i].transaction_hash = h}
(* a variant whose hash lookup never finds a row *)
HashExistsNever(store, h) == FALSE

HashExists(store, h) == RowsWithHash(store, h) # {}

(* a variant that ignores the status argument *)
RowStatusDefaultOnly(s) == "pending"

(* status: transactionData.status || 'pending' *)
RowStatus(s) == IF s = "none" THEN "pending" ELSE s

RowOf(d) ==
  [transaction_hash |-> d.transaction_hash, sender_uid |-> d.sender_uid,
   receiver_uid |-> d.receiver_uid, amount |-> d.amount, token |-> d.token,
   chain_id |-> d.chain_id, status |-> RowStatus(d.status)]

(* a variant of the schema without the key on transaction_hash *)
NoPrimaryKey(store, row) == FALSE

(* transaction_hash TEXT PRIMARY KEY: the store rejects a second row with  *)
(* the same hash                                                           *)
PrimaryKeyConflict(store, row) ==
  \E i \in DOMAIN store : store[i].transaction_hash = row.transaction_hash

(* sender_uid / receiver_uid REFERENCES users(user_id) *)
ForeignKeyViolation(row) ==
  row.sender_uid \notin users \/ row.receiver_uid \notin users

Bump(c, what) == [c EXCEPT ![what] = @ + 1]
Threw(c, callee) == [c EXCEPT !.threw = callee]

(* ------------------------ identifiers and accounts -------------------- *)
(* A string the code inspects character by character is a sequence of      *)
(* one-character strings.                                                  *)
Rep(c, n) == [i \in 1..n |-> c]

(* text of the form 8-4-4-4-12 whose groups repeat the character c, with   *)
(* the version character ver and the variant character var                 *)
UuidLike(c, ver, var) ==
  Rep(c, 8) \o <<"-">> \o Rep(c, 4) \o <<"-", ver>> \o Rep(c, 3)
    \o <<"-", var>> \o Rep(c, 3) \o <<"-">> \o Rep(c, 12)

(* user_id as text: crypto.randomUUID() and gen_random_uuid() make         *)
(* version 4 ids                                                           *)
UuidOf(u) ==
  IF u = "u1" THEN UuidLike("1", "4", "a") ELSE UuidLike("2", "4", "b")

(* the empty string, also standing for null and for an argument left out *)
NoId == <<>>
PhonePlus == <<"+", "1", "5">>
PhoneDigits == <<"1", "5", "5">>
Handle == <<"a", "l", "i">>
ShortHandle == <<"a", "b">>
Address == <<"W">>

(* receiver identifiers a caller can pass: the two user ids, a text in the *)
(* 8-4-4-4-12 form with version 7, two phone numbers, a handle             *)
Identifiers ==
  {UuidOf("u1"), UuidOf("u2"), UuidLike("1", "7", "a"), PhonePlus, PhoneDigits, Handle}
PhoneNumbers == {PhonePlus, PhoneDigits}
(* cron ids a caller can ask for: a handle, one made of digits, a short one *)
CronIds == {Handle, PhoneDigits, ShortHandle}

Digits == {"0", "1", "2", "3", "4", "5", "6", "7", "8", "9"}
HexDigits == Digits \cup {"a", "b", "c", "d", "e", "f", "A", "B", "C", "D", "E", "F"}

(* /^[0-9a-f]{8}-[0-9a-f]{4}-[1-5][0-9a-f]{3}-[89ab][0-9a-f]{3}-[0-9a-f]{12}$/i *)
UuidShaped(id) ==
  /\ Len(id) = 36
  /\ \A i \in 1..36 :
       IF i \in {9, 14, 19, 24} THEN id[i] = "-"
       ELSE IF i = 15 THEN id[i] \in {"1", "2", "3", "4", "5"}
       ELSE IF i = 20 THEN id[i] \in {"8", "9", "a", "b", "A", "B"}
       ELSE id[i] \in HexDigits

(* identifier.startsWith('+') *)
StartsWithPlus(id) == Len(id) > 0 /\ id[1] = "+"

(* /^\d+$/.test(identifier) *)
AllDigits(id) == Len(id) > 0 /\ \A i \in 1..Len(id) : id[i] \in Digits

(* a variant that tries the handle before the phone number *)
LookupColumnHandleFirst(id) ==
  IF UuidShaped(id) THEN "user_id"
  ELSE IF ~StartsWithPlus(id) THEN "cron_id"
  ELSE "phone_number"

(* the column resolveReceiverIdentifier looks the identifier up in *)
LookupColumn(id) ==
  IF UuidShaped(id) THEN "user_id"
  ELSE IF StartsWithPlus(id) \/ AllDigits(id) THEN "phone_number"
  ELSE "cron_id"

(* rows of the users table: the columns of a row next to its user_id *)
NoProfile == [phone_number |-> NoId, cron_id |-> NoId, primary_address |-> NoId]
FirstProfile == [phone_number |-> PhonePlus, cron_id |-> NoId, primary_address |-> NoId]
SecondProfile == [phone_number |-> PhoneDigits, cron_id |-> NoId, primary_address |-> NoId]

ColumnValue(prof, u, column) ==
  IF column = "user_id" THEN UuidOf(u) ELSE prof[u][column]

(* .from('users').select(...).eq(column, value) *)
RowsMatching(store, prof, column, value) ==
  {u \in store : ColumnValue(prof, u, column) = value}

(* resolveReceiverIdentifier: `.single()` gives an error unless exactly    *)
(* one row matches; `if (error || !data) return null; return data.user_id` *)
ResolveReceiverIdentifier(store, prof, id, error) ==
  LET rows == RowsMatching(store, prof, LookupColumn(id), id)
  IN  IF error \/ Cardinality(rows) # 1 THEN NoUser ELSE CHOOSE u \in rows : TRUE

(* updateData of updateUser: a column left out is Absent (NoUser for       *)
(* user_id)                                                                *)
Absent == <<"absent">>
NoUpdate == [user_id |-> NoUser, phone_number |-> Absent, cron_id |-> Absent,
             primary_address |-> Absent]
NoArg == [userId |-> NoUser, phoneNumber |-> NoId, cronId |-> NoId,
          updateData |-> NoUpdate, address |-> NoId, receiver |-> NoId,
          pageQuery |-> NoId, limitQuery |-> NoId, page |-> 0, limit |-> 0]
Unresolved == [called |-> FALSE, user_id |-> NoUser, error |-> FALSE, current |-> FALSE]
NoListing == [returned |-> FALSE, transactions |-> <<>>, page |-> 0, limit |-> 0,
              total |-> 0, totalPages |-> 0, hasNext |-> FALSE, hasPrev |-> FALSE]


(* ------------------------ tokens and the Firebase app ----------------- *)
(* A JWT is what verifyAsync looks at: the payload's type and sub, and the *)
(* secret it was signed with.                                              *)
NoJwt == [type |-> "none", secret |-> "", sub |-> NoUser]
NoTokenPair == [accessToken |-> NoJwt, refreshToken |-> NoJwt]

(* the configured secrets: two different ones, one secret for both kinds,  *)
(* the refresh secret not configured                                       *)
JwtConfigs ==
  {[access |-> "k1", refresh |-> "k2"],
   [access |-> "k1", refresh |-> "k1"],
   [access |-> "k1", refresh |-> ""]}

(* tokens signed by somebody else *)
ForeignTokens ==
  {[type |-> t, secret |-> "foreign", sub |-> "u1"] : t \in {"access", "refresh"}}

(* the idToken of a request body: none, one Firebase issued, one it did    *)
(* not                                                                     *)
IdTokens == {"", "genuine", "bogus"}

NoSession == [idToken |-> "", verified |-> FALSE, user |-> NoUser, isNewUser |-> FALSE,
              refused |-> "", presented |-> NoJwt, accepted |-> FALSE,
              tokens |-> NoTokenPair]

(* getApps() is empty and no FirebaseAdminService has been constructed *)
DefaultApp == "[DEFAULT]"
NoFirebaseApp == [apps |-> {}, initializeAppCalls |-> 0, services |-> <<>>]

(* ------------------------------ initial state ------------------------- *)
(* no token has been issued and no request carries one *)
NoSessions ==
  /\ issued = {}
  /\ session = [p \in Procs |-> NoSession]

(* no request is in flight *)
Quiet ==
  /\ chain = [h \in Hashes |-> Unseen]
  /\ broadcast = {}
  /\ sentFeePayers = {}
  /\ op = [p \in Procs |-> "none"]
  /\ pc = [p \in Procs |-> "idle"]
  /\ tx = [p \in Procs |-> NoTx]
  /\ req = [p \in Procs |-> NoReq]
  /\ signature = [p \in Procs |-> NoSig]
  /\ txnStatus = [p \in Procs |-> Unpolled]
  /\ td = [p \in Procs |-> NoTd]
  /\ result = [p \in Procs |-> NoResult]
  /\ ctOut = [p \in Procs |-> NoResult]
  /\ newTransaction = [p \in Procs |-> NoTd]
  /\ calls = [p \in Procs |-> NoCalls]
  /\ uarg = [p \in Procs |-> NoArg]
  /\ resolved = [p \in Procs |-> Unresolved]
  /\ listing = [p \in Procs |-> NoListing]

(* no request has been made and nothing has been broadcast *)
Idle ==
  /\ firebaseApp = NoFirebaseApp
  /\ jwtConfig = [access |-> "k1", refresh |-> "k2"]
  /\ NoSessions
  /\ Quiet

(* the users table holding the accounts us: u1 as createUser made it, u2   *)
(* with the other phone number                                             *)
Accounts(us) ==
  /\ users = us
  /\ profile = [u \in UserIds |->
       IF u \notin us THEN NoProfile
       ELSE IF u = "u1" THEN FirstProfile
       ELSE SecondProfile]

Init ==
  /\ Accounts({"u1"})
  /\ transactions = <<>>
  /\ insertedBy = <<>>
  /\ Idle


(* ------------------------- network (environment) ---------------------- *)
(* The cluster processes a broadcast signature: unseen, then reported at a *)
(* commitment below finalized (`confirmed` stands for processed and        *)
(* confirmed alike: the code tells only finalized from the rest), then     *)
(* `finalized`. Its execution error, if any, is reported from the moment   *)
(* the signature is seen.                                                  *)
NextLevel(level) == IF level = "none" THEN "confirmed" ELSE "finalized"

NetworkAdvance(sig) ==
  /\ UNCHANGED userVars
  /\ sig \in broadcast
  /\ chain[sig].confirmationStatus # "finalized"
  /\ \E e \in BOOLEAN :
       /\ chain[sig].confirmationStatus # "none" => e = chain[sig].err
       /\ chain' = [chain EXCEPT ![sig] =
            [confirmationStatus |-> NextLevel(chain[sig].confirmationStatus),
             err |-> e]]
  /\ UNCHANGED <<users, transactions, insertedBy, newTransaction, authVars, broadcast, sentFeePayers, op, pc, tx, req,
                 signature, txnStatus, td, result, ctOut, calls>>

(* ------------------- UsersService.transferSpl ------------------------- *)
DecodeError == "decode failed"
FeePayerMismatch == "Transaction fee payer does not match server fee payer"
BlockhashError == "getLatestBlockhash failed"
BroadcastError == "sendRawTransaction failed"
StatusError == "getSignatureStatus failed"

(* signAndSendTransaction throws: transferSpl awaits it outside any try,   *)
(* so the exception leaves transferSpl                                     *)
SubmitThrows(p, msg) ==
  /\ pc' = [pc EXCEPT ![p] = "done"]
  /\ result' = [result EXCEPT ![p] = Thrown(msg)]
  /\ calls' = [calls EXCEPT ![p] = Threw(@, "signAndSendTransaction")]

(* Entry of transferSpl up to the first await inside                       *)
(* signAndSendTransaction: decodeTransaction, then the fee-payer check.    *)
(* A legacy transaction next awaits getLatestBlockhash; a versioned one is *)
(* signed in place and next awaits sendRawTransaction.                     *)
TransferSplWith(p, tokens) ==
  /\ UNCHANGED userVars
  /\ pc[p] = "idle"
  /\ \E e \in EncodedTxs, s \in UserIds, r \in UserIds, a \in Amounts,
        tk \in tokens :
       /\ op' = [op EXCEPT ![p] = "transferSpl"]
       /\ req' = [req EXCEPT ![p] =
            [senderUid |-> s, receiverUid |-> r, amount |-> a, token |-> tk]]
       /\ tx' = [tx EXCEPT ![p] =
            IF e.wire = "malformed" \/ ~FeePayerMatches(e) THEN NoTx
            ELSE IF e.wire = "legacy" THEN Decoded(e)
            ELSE SignedByServer(Decoded(e))]
       /\ IF e.wire = "malformed"
          THEN SubmitThrows(p, DecodeError)
          ELSE IF ~FeePayerMatches(e)
          THEN SubmitThrows(p, FeePayerMismatch)
          ELSE /\ pc' = [pc EXCEPT ![p] =
                    IF e.wire = "legacy" THEN "blockhash" ELSE "send"]
               /\ UNCHANGED <<result, calls>>
  /\ UNCHANGED <<users, transactions, insertedBy, newTransaction, authVars, chain, broadcast, sentFeePayers,
                 signature, txnStatus, td, ctOut>>

TransferSpl(p) == TransferSplWith(p, TokenLists)

(* POST /user/transfer-spl: the body passes the required-field check of    *)
(* the controller and transferSpl is called with its token array           *)
PostTransferSpl(p) ==
  TransferSplWith(p, {tk \in TokenBodies : TransferSplAccepts(tk)})

(* legacy: await this.connection.getLatestBlockhash(); the blockhash is     *)
(* attached and the transaction signed before sendRawTransaction is        *)
(* awaited                                                                 *)
GetLatestBlockhash(p) ==
  /\ UNCHANGED userVars
  /\ pc[p] = "blockhash"
  /\ \E rpcFails \in BOOLEAN :
       IF rpcFails
       THEN /\ pc' = [pc EXCEPT ![p] = "done"]
            /\ result' = [result EXCEPT ![p] = Thrown(BlockhashError)]
            /\ calls' = [calls EXCEPT ![p] =
                 Threw(Bump(@, "getLatestBlockhash"), "signAndSendTransaction")]
            /\ tx' = [tx EXCEPT ![p] = NoTx]
       ELSE /\ pc' = [pc EXCEPT ![p] = "send"]
            /\ calls' = [calls EXCEPT ![p] = Bump(@, "getLatestBlockhash")]
            /\ tx' = [tx EXCEPT ![p] = SignedByServer(AttachBlockhash(@))]
            /\ UNCHANGED result
  /\ UNCHANGED <<users, transactions, insertedBy, newTransaction, authVars, chain, broadcast, sentFeePayers, op, req,
                 signature, txnStatus, td, ctOut>>

(* await this.connection.sendRawTransaction(...): the network accepts the  *)
(* transaction and returns its signature, or rejects it and the error is   *)
(* logged and rethrown. On return transferSpl awaits getTxnStatus. The     *)
(* signature is the transaction's own: the same signed transaction sent    *)
(* twice yields one signature, and any hash can also be posted directly to *)
(* createTransaction, so signatures are drawn from all of Hashes.          *)
SendRawTransaction(p) ==
  /\ UNCHANGED userVars
  /\ pc[p] = "send"
  /\ sentFeePayers' = sentFeePayers \cup {tx[p].feePayer}
  /\ tx' = [tx EXCEPT ![p] = NoTx]
  /\ \/ \E sig \in Hashes :
          /\ broadcast' = broadcast \cup {sig}
          /\ signature' = [signature EXCEPT ![p] = sig]
          /\ pc' = [pc EXCEPT ![p] =
               IF op[p] = "onboardUser" THEN "ob_update" ELSE "status"]
          /\ calls' = [calls EXCEPT ![p] = Bump(@, "sendRawTransaction")]
          /\ UNCHANGED result
     \/ /\ pc' = [pc EXCEPT ![p] = "done"]
        /\ result' = [result EXCEPT ![p] = Thrown(BroadcastError)]
        /\ calls' = [calls EXCEPT ![p] =
             Threw(Bump(@, "sendRawTransaction"), "signAndSendTransaction")]
        /\ UNCHANGED <<broadcast, signature>>
  /\ UNCHANGED <<users, transactions, insertedBy, newTransaction, authVars, chain, op, req, txnStatus, td, ctOut>>

(* What transferSpl does with a status once getTxnStatus has returned it:  *)
(* stay in the while loop (sleep 500 ms), return the failure, or call      *)
(* createTransaction, whose first await is the sender lookup.              *)
AfterStatus(p, st) ==
  IF LoopContinues(st)
  THEN /\ pc' = [pc EXCEPT ![p] = "sleep"]
       /\ UNCHANGED <<td, result, calls>>
  ELSE IF TransferFailed(st)
  THEN /\ pc' = [pc EXCEPT ![p] = "done"]
       /\ result' = [result EXCEPT ![p] =
            Returned(FALSE, "SPL token transfer failed", signature[p])]
       /\ UNCHANGED <<td, calls>>
  ELSE /\ pc' = [pc EXCEPT ![p] = "ct_sender"]
       /\ td' = [td EXCEPT ![p] = TransferData(signature[p], req[p])]
       /\ calls' = [calls EXCEPT ![p] = Bump(@, "createTransaction")]
       /\ UNCHANGED result

(* a variant that catches the exception of getTxnStatus and goes on to    *)
(* record the transfer                                                     *)
StatusThrowsSwallowed(p) ==
  /\ pc' = [pc EXCEPT ![p] = "ct_sender"]
  /\ td' = [td EXCEPT ![p] = TransferData(signature[p], req[p])]
  /\ calls' = [calls EXCEPT ![p] =
       Threw(Bump(@, "createTransaction"), "getTxnStatus")]
  /\ UNCHANGED <<txnStatus, result>>

(* getTxnStatus throws: both awaits of it in transferSpl are outside any   *)
(* try, so the exception leaves transferSpl                                *)
StatusThrows(p) ==
  /\ pc' = [pc EXCEPT ![p] = "done"]
  /\ result' = [result EXCEPT ![p] = Thrown(StatusError)]
  /\ calls' = [calls EXCEPT ![p] = Threw(@, "getTxnStatus")]
  /\ UNCHANGED <<txnStatus, td>>

(* await this.solanaService.getTxnStatus(signature) *)
GetTxnStatus(p) ==
  /\ UNCHANGED userVars
  /\ pc[p] = "status"
  /\ \/ /\ txnStatus' = [txnStatus EXCEPT ![p] = SignatureStatus(signature[p])]
        /\ AfterStatus(p, SignatureStatus(signature[p]))
     \/ StatusThrows(p)
  /\ UNCHANGED <<users, transactions, insertedBy, newTransaction, authVars, chain, broadcast, sentFeePayers, op, tx,
                 req, signature, ctOut>>

(* a variant of the wait that sends the transaction again before the next  *)
(* poll                                                                    *)
SleepResends(p) ==
  /\ UNCHANGED userVars
  /\ pc[p] = "sleep"
  /\ pc' = [pc EXCEPT ![p] = "status"]
  /\ calls' = [calls EXCEPT ![p] = Bump(@, "sendRawTransaction")]
  /\ UNCHANGED <<users, transactions, insertedBy, newTransaction, authVars, chain, broadcast, sentFeePayers, op, tx,
                 req, signature, txnStatus, td, result, ctOut>>

(* await new Promise((resolve) => setTimeout(resolve, 500)) *)
Sleep(p) ==
  /\ UNCHANGED userVars
  /\ pc[p] = "sleep"
  /\ pc' = [pc EXCEPT ![p] = "status"]
  /\ UNCHANGED <<users, transactions, insertedBy, newTransaction, authVars, chain, broadcast, sentFeePayers, op, tx,
                 req, signature, txnStatus, td, result, ctOut, calls>>


(* ---------------- TransactionService.createTransaction ---------------- *)
SenderNotFound == Returned(FALSE, "Sender user not found", NoSig)
ReceiverNotFound == Returned(FALSE, "Receiver user not found", NoSig)
DuplicateTransaction ==
  Returned(FALSE, "Transaction with this hash already exists", NoSig)
Created == Returned(TRUE, "Transaction created successfully", NoSig)
HashCheckFailed == Thrown("Failed to check existing transaction: store error")
UniqueViolation ==
  Thrown("Failed to create transaction: duplicate key value violates unique constraint")
ForeignKeyError ==
  Thrown("Failed to create transaction: violates foreign key constraint")
InsertFailed == Thrown("Failed to create transaction: store error")

(* How createTransaction's outcome reaches the caller of the request: a    *)
(* direct caller gets it as it is; transferSpl awaits the call, lets a     *)
(* throw propagate, ignores the returned value and returns success.        *)
Outcome(p, out) ==
  IF op[p] = "transferSpl" /\ out.kind = "return"
  THEN Returned(TRUE, "SPL token transfer completed successfully", signature[p])
  ELSE out

CtReturn(p, out) ==
  /\ pc' = [pc EXCEPT ![p] = "done"]
  /\ ctOut' = [ctOut EXCEPT ![p] = out]
  /\ result' = [result EXCEPT ![p] = Outcome(p, out)]

(* a variant whose existence checks let every request through *)
LookupNeverFails(error, found) == FALSE

(* `senderError || !senderExists`, `receiverError || !receiverExists` *)
LookupFailed(error, found) == error \/ ~found

(* a direct call of createTransaction (POST /transaction), up to its first *)
(* await, the sender lookup                                                *)
CreateTransactionGiven(p, tokens, statuses) ==
  /\ UNCHANGED userVars
  /\ pc[p] = "idle"
  /\ \E h \in Hashes, s \in UserIds, r \in UserIds, a \in Amounts,
        tk \in tokens, st \in statuses :
       td' = [td EXCEPT ![p] =
         [transaction_hash |-> h, sender_uid |-> s, receiver_uid |-> r,
          amount |-> a, token |-> tk, chain_id |-> SolanaChainId, status |-> st]]
  /\ op' = [op EXCEPT ![p] = "createTransaction"]
  /\ pc' = [pc EXCEPT ![p] = "ct_sender"]
  /\ calls' = [calls EXCEPT ![p] = Bump(@, "createTransaction")]
  /\ UNCHANGED <<users, transactions, insertedBy, newTransaction, authVars, chain, broadcast, sentFeePayers, tx, req,
                 signature, txnStatus, result, ctOut>>

CreateTransactionWith(p, tokens) == CreateTransactionGiven(p, tokens, StatusArgs)

CreateTransaction(p) == CreateTransactionWith(p, TokenLists)

BadRequest == Thrown("HttpException 400: token validation")

(* POST /transaction: the controller validates the token array and either  *)
(* answers 400 or calls createTransaction                                  *)
PostTransaction(p) ==
  \/ CreateTransactionWith(p, {tk \in TokenBodies : PostTransactionAccepts(tk)})
  \/ /\ pc[p] = "idle"
     /\ \E tk \in TokenBodies : ~PostTransactionAccepts(tk)
     /\ op' = [op EXCEPT ![p] = "createTransaction"]
     /\ pc' = [pc EXCEPT ![p] = "done"]
     /\ result' = [result EXCEPT ![p] = BadRequest]
     /\ UNCHANGED <<users, transactions, insertedBy, newTransaction, authVars, chain, broadcast, sentFeePayers,
                    tx, req, signature, txnStatus, td, ctOut, calls>>
     /\ UNCHANGED userVars

(* users lookup by sender_uid; then the receiver lookup is awaited *)
CtSender(p) ==
  /\ UNCHANGED userVars
  /\ pc[p] = "ct_sender"
  /\ \E storeError \in BOOLEAN :
       IF LookupFailed(storeError, UserExists(users, td[p].sender_uid))
       THEN CtReturn(p, SenderNotFound)
       ELSE /\ pc' = [pc EXCEPT ![p] = "ct_receiver"]
            /\ UNCHANGED <<result, ctOut>>
  /\ UNCHANGED <<users, transactions, insertedBy, newTransaction, authVars, chain, broadcast, sentFeePayers, op, tx,
                 req, signature, txnStatus, td, calls>>

(* users lookup by receiver_uid; then the hash lookup is awaited *)
CtReceiver(p) ==
  /\ UNCHANGED userVars
  /\ pc[p] = "ct_receiver"
  /\ \E storeError \in BOOLEAN :
       IF LookupFailed(storeError, UserExists(users, td[p].receiver_uid))
       THEN CtReturn(p, ReceiverNotFound)
       ELSE /\ pc' = [pc EXCEPT ![p] = "ct_hash"]
            /\ UNCHANGED <<result, ctOut>>
  /\ UNCHANGED <<users, transactions, insertedBy, newTransaction, authVars, chain, broadcast, sentFeePayers, op, tx,
                 req, signature, txnStatus, td, calls>>

(* transactions lookup by transaction_hash: an error other than PGRST116   *)
(* (no row) throws, an existing row returns the duplicate result, else the *)
(* insert is awaited                                                       *)
CtHash(p) ==
  /\ UNCHANGED userVars
  /\ pc[p] = "ct_hash"
  /\ \E storeError \in BOOLEAN :
       IF storeError
       THEN CtReturn(p, HashCheckFailed)
       ELSE IF HashExists(transactions, td[p].transaction_hash)
       THEN CtReturn(p, DuplicateTransaction)
       ELSE /\ pc' = [pc EXCEPT ![p] = "ct_insert"]
            /\ UNCHANGED <<result, ctOut>>
  /\ UNCHANGED <<users, transactions, insertedBy, newTransaction, authVars, chain, broadcast, sentFeePayers, op, tx,
                 req, signature, txnStatus, td, calls>>

(* the error of the insert: a constraint of schema.sql rejects the row, or *)
(* the store fails otherwise; NoResult when the row is accepted            *)
CreateError(store, row, storeError) ==
  IF PrimaryKeyConflict(store, row) THEN UniqueViolation
  ELSE IF ForeignKeyViolation(row) THEN ForeignKeyError
  ELSE IF storeError THEN InsertFailed
  ELSE NoResult

(* a variant that writes with upsert: a row holding the hash is replaced   *)
CtUpsert(p) ==
  /\ UNCHANGED userVars
  /\ pc[p] = "ct_insert"
  /\ \E storeError \in BOOLEAN :
       IF storeError \/ ForeignKeyViolation(RowOf(td[p]))
       THEN /\ CtReturn(p, InsertFailed)
            /\ UNCHANGED <<transactions, insertedBy, newTransaction>>
       ELSE /\ IF RowsWithHash(transactions, td[p].transaction_hash) = {}
               THEN /\ transactions' = Append(transactions, RowOf(td[p]))
                    /\ insertedBy' = Append(insertedBy, p)
               ELSE /\ transactions' = [i \in DOMAIN transactions |->
                         IF transactions[i].transaction_hash = td[p].transaction_hash
                         THEN RowOf(td[p]) ELSE transactions[i]]
                    /\ UNCHANGED insertedBy
            /\ newTransaction' = [newTransaction EXCEPT ![p] = RowOf(td[p])]
            /\ CtReturn(p, Created)
  /\ UNCHANGED <<users, authVars, chain, broadcast, sentFeePayers, op, tx, req,
                 signature, txnStatus, td, calls>>

(* a variant that returns the transactionData it was given instead of the  *)
(* row the store returned                                                  *)
CtInsertEchoesInput(p) ==
  /\ UNCHANGED userVars
  /\ pc[p] = "ct_insert"
  /\ \E storeError \in BOOLEAN :
       IF CreateError(transactions, RowOf(td[p]), storeError) # NoResult
       THEN /\ CtReturn(p, CreateError(transactions, RowOf(td[p]), storeError))
            /\ UNCHANGED <<transactions, insertedBy, newTransaction>>
       ELSE /\ transactions' = Append(transactions, RowOf(td[p]))
            /\ insertedBy' = Append(insertedBy, p)
            /\ newTransaction' = [newTransaction EXCEPT ![p] = td[p]]
            /\ CtReturn(p, Created)
  /\ UNCHANGED <<users, authVars, chain, broadcast, sentFeePayers, op, tx, req,
                 signature, txnStatus, td, calls>>

(* .from('transactions').insert({...}).select().single(): createError      *)
(* throws, else the success result is returned with the row the store      *)
(* returned                                                                *)
CtInsert(p) ==
  /\ UNCHANGED userVars
  /\ pc[p] = "ct_insert"
  /\ \E storeError \in BOOLEAN :
       IF CreateError(transactions, RowOf(td[p]), storeError) # NoResult
       THEN /\ CtReturn(p, CreateError(transactions, RowOf(td[p]), storeError))
            /\ UNCHANGED <<transactions, insertedBy, newTransaction>>
       ELSE /\ transactions' = Append(transactions, RowOf(td[p]))
            /\ insertedBy' = Append(insertedBy, p)
            /\ newTransaction' = [newTransaction EXCEPT ![p] =
                 transactions'[Len(transactions')]]
            /\ CtReturn(p, Created)
  /\ UNCHANGED <<users, authVars, chain, broadcast, sentFeePayers, op, tx, req,
                 signature, txnStatus, td, calls>>

(* --------------------------- UsersService ------------------------------ *)
(* what the account operations and the listing leave alone *)
ledgerVars == <<transactions, insertedBy, newTransaction, chain, broadcast, sentFeePayers, tx, req,
                signature, txnStatus, td, ctOut, calls>>

UserCheckFailed == Thrown("Failed to check existing user: store error")
UserCreateFailed == Thrown("Failed to create user: store error")
UserFound == Returned(TRUE, "User found with existing phone number", NoSig)
UserCreated == Returned(TRUE, "New user created successfully", NoSig)
UserNotFound == Returned(FALSE, "User not found", NoSig)
UserUpdateFailed == Thrown("Failed to update user: store error")
UserUpdated == Returned(TRUE, "User updated successfully", NoSig)
CronIdTooShort == Returned(FALSE, "Cron ID must be at least 3 characters long", NoSig)
CronIdTaken == Returned(FALSE, "Cron ID is already taken", NoSig)
CronIdCheckFailed == Thrown("Failed to check cron ID availability: store error")
CronIdRegisterFailed == Thrown("Failed to register cron ID: store error")
CronIdRegistered == Returned(TRUE, "Cron ID registered successfully", NoSig)
OnboardFailed == Thrown("Failed to onboard user: store error")

Finish(p, out) ==
  /\ pc' = [pc EXCEPT ![p] = "done"]
  /\ result' = [result EXCEPT ![p] = out]

(* a write to the users table: no earlier resolution is of the current     *)
(* table any more                                                          *)
AccountsChanged ==
  resolved' = [q \in Procs |-> [resolved[q] EXCEPT !.current = FALSE]]

(* a store without the UNIQUE constraints *)
TakenNever(store, prof, column, value, self) == FALSE

(* UNIQUE on phone_number, cron_id, primary_address: another row already   *)
(* holds the value (null values do not conflict)                           *)
Taken(store, prof, column, value, self) ==
  value # NoId /\ \E u \in store \ {self} : prof[u][column] = value

(* createUser up to its first await, the lookup by phone_number *)
CreateUser(p) ==
  /\ pc[p] = "idle"
  /\ \E ph \in PhoneNumbers :
       uarg' = [uarg EXCEPT ![p] = [NoArg EXCEPT !.phoneNumber = ph]]
  /\ op' = [op EXCEPT ![p] = "createUser"]
  /\ pc' = [pc EXCEPT ![p] = "cu_find"]
  /\ UNCHANGED <<users, profile, result, resolved, listing>>
  /\ UNCHANGED ledgerVars
  /\ UNCHANGED authVars

(* How createUser's outcome reaches the caller of the request: a direct    *)
(* caller gets it as it is; POST /user/create answers 500 to a throw and   *)
(* otherwise awaits generateTokenPair for the returned user.               *)
CuReturn(p, out) ==
  IF op[p] # "POST /user/create" THEN Finish(p, out)
  ELSE IF out.kind = "throw" THEN Finish(p, InternalServerError(out.message))
  ELSE /\ pc' = [pc EXCEPT ![p] = "tokens"]
       /\ UNCHANGED result

(* the lookup answers: an error other than PGRST116 throws, an existing    *)
(* user is returned, else the insert is awaited                            *)
CuFind(p) ==
  /\ pc[p] = "cu_find"
  /\ \E storeError \in BOOLEAN :
       LET existing == RowsMatching(users, profile, "phone_number", uarg[p].phoneNumber)
       IN  IF storeError
           THEN /\ CuReturn(p, UserCheckFailed)
                /\ UNCHANGED session
           ELSE IF existing # {}
           THEN /\ CuReturn(p, UserFound)
                /\ session' = [session EXCEPT ![p].user = CHOOSE u \in existing : TRUE,
                                              ![p].isNewUser = FALSE]
           ELSE /\ pc' = [pc EXCEPT ![p] = "cu_insert"]
                /\ UNCHANGED <<result, session>>
  /\ UNCHANGED <<users, profile, op, uarg, resolved, listing>>
  /\ UNCHANGED ledgerVars
  /\ UNCHANGED <<firebaseApp, jwtConfig, issued>>

(* why the users table refuses the row createUser inserts. The table as    *)
(* schema.sql declares it has cron_id and primary_address NOT NULL, and    *)
(* the row carries null in both; a deployed table that takes null, as the  *)
(* rest of the service expects, refuses the row only when its phone number *)
(* was taken since the lookup (UNIQUE); and the store can fail.            *)
InsertRefusals(store, prof, phoneNumber) ==
  {"store", "not null"} \cup
  (IF RowsMatching(store, prof, "phone_number", phoneNumber) # {}
   THEN {"unique"} ELSE {})

(* insert of the new row under a fresh crypto.randomUUID(), with cron_id   *)
(* and primary_address null and wallet_address []. createError throws;     *)
(* otherwise the new row is returned.                                      *)
CuInsert(p) ==
  /\ pc[p] = "cu_insert"
  /\ \/ /\ CuReturn(p, UserCreateFailed)
        /\ \E why \in InsertRefusals(users, profile, uarg[p].phoneNumber) :
             session' = [session EXCEPT ![p].refused = why]
        /\ UNCHANGED <<users, profile, resolved>>
     \/ \E u \in UserIds \ users :
          /\ ~Taken(users, profile, "phone_number", uarg[p].phoneNumber, u)
          /\ users' = users \cup {u}
          /\ profile' = [profile EXCEPT ![u] =
               [NoProfile EXCEPT !.phone_number = uarg[p].phoneNumber]]
          /\ AccountsChanged
          /\ CuReturn(p, UserCreated)
          /\ session' = [session EXCEPT ![p].user = u, ![p].isNewUser = TRUE]
  /\ UNCHANGED <<op, uarg, listing>>
  /\ UNCHANGED ledgerVars
  /\ UNCHANGED <<firebaseApp, jwtConfig, issued>>

(* updateData a caller can send to updateUser *)
UpdateDatas ==
  {[NoUpdate EXCEPT !.user_id = "u2"],
   [NoUpdate EXCEPT !.cron_id = Handle],
   [NoUpdate EXCEPT !.phone_number = PhoneDigits],
   [NoUpdate EXCEPT !.user_id = "u2", !.primary_address = Address]}

(* a variant that passes updateData to the store as it came *)
StripNothing(d) == d

(* const { user_id, created_at, updated_at, ...allowedUpdateData } = updateData *)
StripImmutable(d) == [d EXCEPT !.user_id = NoUser]

(* the row after .update(d): the columns d carries replace the row's *)
Updated(row, d) ==
  [c \in DOMAIN row |-> IF d[c] = Absent THEN row[c] ELSE d[c]]

(* the key of the row after .update(d) *)
UpdatedKey(id, d) == IF d.user_id = NoUser THEN id ELSE d.user_id

(* the store rejects .update(d) of row id: a unique column would repeat,   *)
(* the new key is in use, or transactions rows reference the old key       *)
UpdateRejected(store, prof, rows, id, d) ==
  \/ \E c \in DOMAIN prof[id] : d[c] # Absent /\ Taken(store, prof, c, d[c], id)
  \/ /\ UpdatedKey(id, d) # id
     /\ \/ UpdatedKey(id, d) \in store
        \/ \E i \in DOMAIN rows : id \in {rows[i].sender_uid, rows[i].receiver_uid}

(* .from('users').update(d).eq('user_id', id) on an accepted update *)
UpdateRow(id, d) ==
  /\ users' = (users \ {id}) \cup {UpdatedKey(id, d)}
  /\ profile' = [u \in UserIds |->
       IF u = UpdatedKey(id, d) THEN Updated(profile[id], d)
       ELSE IF u = id THEN NoProfile
       ELSE profile[u]]
  /\ AccountsChanged

(* updateUser: one awaited update; PGRST116 (no such row) returns 'User    *)
(* not found', any other error throws                                      *)
UpdateUser(p) ==
  /\ pc[p] = "idle"
  /\ op' = [op EXCEPT ![p] = "updateUser"]
  /\ \E id \in UserIds, d \in UpdateDatas, storeError \in BOOLEAN :
       /\ uarg' = [uarg EXCEPT ![p] = [NoArg EXCEPT !.userId = id, !.updateData = d]]
       /\ IF storeError
          THEN /\ Finish(p, UserUpdateFailed)
               /\ UNCHANGED <<users, profile, resolved>>
          ELSE IF id \notin users
          THEN /\ Finish(p, UserNotFound)
               /\ UNCHANGED <<users, profile, resolved>>
          ELSE IF UpdateRejected(users, profile, transactions, id, StripImmutable(d))
          THEN /\ Finish(p, UserUpdateFailed)
               /\ UNCHANGED <<users, profile, resolved>>
          ELSE /\ UpdateRow(id, StripImmutable(d))
               /\ Finish(p, UserUpdated)
  /\ UNCHANGED listing
  /\ UNCHANGED ledgerVars
  /\ UNCHANGED authVars

(* registerCronId up to the first await of checkCronIdAvailability: a cron *)
(* id shorter than 3 characters is refused at once                         *)
RegisterCronId(p) ==
  /\ pc[p] = "idle"
  /\ op' = [op EXCEPT ![p] = "registerCronId"]
  /\ \E id \in UserIds, c \in CronIds :
       /\ uarg' = [uarg EXCEPT ![p] = [NoArg EXCEPT !.userId = id, !.cronId = c]]
       /\ IF Len(c) < 3
          THEN Finish(p, CronIdTooShort)
          ELSE /\ pc' = [pc EXCEPT ![p] = "rc_check"]
               /\ UNCHANGED result
  /\ UNCHANGED <<users, profile, resolved, listing>>
  /\ UNCHANGED ledgerVars
  /\ UNCHANGED authVars

(* checkCronIdAvailability: the lookup by cron_id answers *)
RcCheck(p) ==
  /\ pc[p] = "rc_check"
  /\ \E storeError \in BOOLEAN :
       IF storeError
       THEN Finish(p, CronIdCheckFailed)
       ELSE IF RowsMatching(users, profile, "cron_id", uarg[p].cronId) # {}
       THEN Finish(p, CronIdTaken)
       ELSE /\ pc' = [pc EXCEPT ![p] = "rc_update"]
            /\ UNCHANGED result
  /\ UNCHANGED <<users, profile, op, uarg, resolved, listing>>
  /\ UNCHANGED ledgerVars
  /\ UNCHANGED authVars

(* .update({ cron_id }).eq('user_id', userId).select().single(): any error *)
(* (no such row, the cron id taken meanwhile, a store failure) throws      *)
RcUpdate(p) ==
  /\ pc[p] = "rc_update"
  /\ \E storeError \in BOOLEAN :
       IF \/ storeError
          \/ uarg[p].userId \notin users
          \/ Taken(users, profile, "cron_id", uarg[p].cronId, uarg[p].userId)
       THEN /\ Finish(p, CronIdRegisterFailed)
            /\ UNCHANGED <<users, profile, resolved>>
       ELSE /\ UpdateRow(uarg[p].userId, [NoUpdate EXCEPT !.cron_id = uarg[p].cronId])
            /\ Finish(p, CronIdRegistered)
  /\ UNCHANGED <<op, uarg, listing>>
  /\ UNCHANGED ledgerVars
  /\ UNCHANGED authVars

(* onboardUser up to the first await inside signAndSendTransaction *)
OnboardUser(p) ==
  /\ pc[p] = "idle"
  /\ op' = [op EXCEPT ![p] = "onboardUser"]
  /\ \E e \in EncodedTxs, id \in UserIds :
       /\ uarg' = [uarg EXCEPT ![p] = [NoArg EXCEPT !.userId = id, !.address = Address]]
       /\ tx' = [tx EXCEPT ![p] =
            IF e.wire = "malformed" \/ ~FeePayerMatches(e) THEN NoTx
            ELSE IF e.wire = "legacy" THEN Decoded(e)
            ELSE SignedByServer(Decoded(e))]
       /\ IF e.wire = "malformed"
          THEN SubmitThrows(p, DecodeError)
          ELSE IF ~FeePayerMatches(e)
          THEN SubmitThrows(p, FeePayerMismatch)
          ELSE /\ pc' = [pc EXCEPT ![p] =
                    IF e.wire = "legacy" THEN "blockhash" ELSE "send"]
               /\ UNCHANGED <<result, calls>>
  /\ UNCHANGED <<users, profile, resolved, listing>>
  /\ UNCHANGED <<transactions, insertedBy, newTransaction, authVars, chain, broadcast, sentFeePayers, req,
                 signature, txnStatus, td, ctOut>>

(* onboardUser after the broadcast: update of primary_address and          *)
(* wallet_address; PGRST116 returns 'User not found', any other error      *)
(* throws                                                                  *)
ObUpdate(p) ==
  /\ pc[p] = "ob_update"
  /\ \E storeError \in BOOLEAN :
       IF storeError
       THEN /\ Finish(p, OnboardFailed)
            /\ UNCHANGED <<users, profile, resolved>>
       ELSE IF uarg[p].userId \notin users
       THEN /\ Finish(p, UserNotFound)
            /\ UNCHANGED <<users, profile, resolved>>
       ELSE IF Taken(users, profile, "primary_address", uarg[p].address, uarg[p].userId)
       THEN /\ Finish(p, OnboardFailed)
            /\ UNCHANGED <<users, profile, resolved>>
       ELSE /\ UpdateRow(uarg[p].userId,
                 [NoUpdate EXCEPT !.primary_address = uarg[p].address])
            /\ Finish(p, Returned(TRUE, "User onboarded successfully", signature[p]))
  /\ UNCHANGED <<op, uarg, listing>>
  /\ UNCHANGED ledgerVars
  /\ UNCHANGED authVars

(* ------------- TransactionService.getTransactionsByUserId ------------- *)
(* page and limit as the service defaults them *)
DefaultPage == 1
DefaultLimit == 10

CountFailed == Thrown("Failed to get transaction count: store error")
SelectFailed == Thrown("Failed to get transactions for user: store error")
Listed == Returned(TRUE, "", NoSig)
(* the page returned when the receiver does not resolve *)
EmptyListing(page, limit) ==
  [returned |-> TRUE, transactions |-> <<>>, page |-> page, limit |-> limit,
   total |-> 0, totalPages |-> 0, hasNext |-> FALSE, hasPrev |-> FALSE]

(* a JavaScript number is an integer or NaN; every comparison with NaN is  *)
(* false                                                                   *)
NaN == -1000000
Less(a, b) == a # NaN /\ b # NaN /\ a < b

(* Math.ceil(total / limit), for the limits that reach the service: NaN or *)
(* at least 1                                                              *)
CeilOfQuotient(total, limit) ==
  IF limit = NaN THEN NaN ELSE (total + limit - 1) \div limit

(* the pagination object of the final return *)
Pagination(page, limit, total) ==
  [page |-> page, limit |-> limit, total |-> total,
   totalPages |-> CeilOfQuotient(total, limit),
   hasNext |-> Less(page, CeilOfQuotient(total, limit)),
   hasPrev |-> Less(1, page)]

Reverse(seq) == [i \in 1..Len(seq) |-> seq[Len(seq) + 1 - i]]

(* .or(userFilter): sender_uid.eq.userId, receiver_uid.eq.userId and, with *)
(* a resolved receiver, receiver_uid.eq.receiverUserId                     *)
Filtered(rows, userId, receiverUserId) ==
  LET Match(row) ==
        \/ row.sender_uid = userId
        \/ row.receiver_uid = userId
        \/ receiverUserId # NoUser /\ row.receiver_uid = receiverUserId
  IN  SelectSeq(rows, Match)

(* .order('created_at', { ascending }).range(offset, offset + limit - 1):  *)
(* rows are created in the order of transactions. A range computed from    *)
(* NaN is no range: a store that answers at all answers with every row.    *)
PageOf(rows, ascending, page, limit) ==
  LET ordered == IF ascending THEN rows ELSE Reverse(rows)
      first == (page - 1) * limit + 1
      last == IF page * limit < Len(ordered) THEN page * limit ELSE Len(ordered)
  IN  IF page = NaN \/ limit = NaN THEN ordered ELSE SubSeq(ordered, first, last)

UserTransactionsRetrieved ==
  Returned(TRUE, "User transactions retrieved successfully", NoSig)
PageRejected == Thrown("HttpException 400: Page number must be greater than 0")
LimitRejected == Thrown("HttpException 400: Limit must be between 1 and 100")

(* How the service's outcome reaches the caller of the request: a direct   *)
(* caller gets it as it is; GET /transaction/user/:userId wraps a returned *)
(* page in its success body and any thrown error in a 500 response.        *)
ListingOutcome(p, out) ==
  IF op[p] # "GET /transaction/user" THEN out
  ELSE IF out.kind = "throw" THEN InternalServerError(out.message)
  ELSE UserTransactionsRetrieved

(* getTransactionsByUserId up to its first await: the resolution of the    *)
(* receiver when one is given, else the count                              *)
GetTransactionsByUserId(p) ==
  /\ pc[p] = "idle"
  /\ op' = [op EXCEPT ![p] = "getTransactionsByUserId"]
  /\ \E id \in UserIds, r \in Identifiers \cup {NoId} :
       /\ uarg' = [uarg EXCEPT ![p] =
            [NoArg EXCEPT !.userId = id, !.receiver = r,
                          !.page = DefaultPage, !.limit = DefaultLimit]]
       /\ pc' = [pc EXCEPT ![p] = IF r = NoId THEN "gt_count" ELSE "gt_resolve"]
  /\ UNCHANGED <<users, profile, result, resolved, listing>>
  /\ UNCHANGED ledgerVars
  /\ UNCHANGED authVars

(* a variant that opens an account for a phone number no account has and   *)
(* resolves to it                                                          *)
GtResolveOrInvite(p) ==
  /\ pc[p] = "gt_resolve"
  /\ \E storeError \in BOOLEAN :
       LET found == ResolveReceiverIdentifier(users, profile, uarg[p].receiver, storeError)
           invited ==
             IF /\ found = NoUser /\ ~storeError
                /\ LookupColumn(uarg[p].receiver) = "phone_number"
                /\ UserIds \ users # {}
             THEN CHOOSE u \in UserIds \ users : TRUE
             ELSE NoUser
           r == IF invited # NoUser THEN invited ELSE found
       IN  /\ IF invited = NoUser
              THEN UNCHANGED <<users, profile>>
              ELSE /\ users' = users \cup {invited}
                   /\ profile' = [profile EXCEPT ![invited] =
                        [NoProfile EXCEPT !.phone_number = uarg[p].receiver]]
           /\ resolved' = [resolved EXCEPT ![p] =
                [called |-> TRUE, user_id |-> r, error |-> storeError,
                 current |-> TRUE]]
           /\ IF r = NoUser
              THEN /\ Finish(p, ListingOutcome(p, Listed))
                   /\ listing' = [listing EXCEPT ![p] =
                        EmptyListing(uarg[p].page, uarg[p].limit)]
              ELSE /\ pc' = [pc EXCEPT ![p] = "gt_count"]
                   /\ UNCHANGED <<result, listing>>
  /\ UNCHANGED <<op, uarg>>
  /\ UNCHANGED ledgerVars
  /\ UNCHANGED authVars

(* resolveReceiverIdentifier: its one lookup answers; a null resolution    *)
(* makes getTransactionsByUserId return the empty page                     *)
GtResolve(p) ==
  /\ pc[p] = "gt_resolve"
  /\ \E storeError \in BOOLEAN :
       LET r == ResolveReceiverIdentifier(users, profile, uarg[p].receiver, storeError)
       IN  /\ resolved' = [resolved EXCEPT ![p] =
                [called |-> TRUE, user_id |-> r, error |-> storeError,
                 current |-> TRUE]]
           /\ IF r = NoUser
              THEN /\ Finish(p, ListingOutcome(p, Listed))
                   /\ listing' = [listing EXCEPT ![p] =
                        EmptyListing(uarg[p].page, uarg[p].limit)]
              ELSE /\ pc' = [pc EXCEPT ![p] = "gt_count"]
                   /\ UNCHANGED <<result, listing>>
  /\ UNCHANGED <<users, profile, op, uarg>>
  /\ UNCHANGED ledgerVars
  /\ UNCHANGED authVars

(* select('*', { count: 'exact', head: true }).or(userFilter) *)
GtCount(p) ==
  /\ pc[p] = "gt_count"
  /\ \E storeError \in BOOLEAN :
       IF storeError
       THEN /\ Finish(p, ListingOutcome(p, CountFailed))
            /\ UNCHANGED listing
       ELSE /\ pc' = [pc EXCEPT ![p] = "gt_select"]
            /\ listing' = [listing EXCEPT ![p].total =
                 Len(Filtered(transactions, uarg[p].userId, resolved[p].user_id))]
            /\ UNCHANGED result
  /\ UNCHANGED <<users, profile, op, uarg, resolved>>
  /\ UNCHANGED ledgerVars
  /\ UNCHANGED authVars

(* the page query, ascending when a receiver was given *)
GtSelect(p) ==
  /\ pc[p] = "gt_select"
  /\ \E storeError \in BOOLEAN :
       IF storeError
       THEN /\ Finish(p, ListingOutcome(p, SelectFailed))
            /\ UNCHANGED listing
       ELSE /\ Finish(p, ListingOutcome(p, Listed))
            /\ listing' = [listing EXCEPT ![p] =
                 [returned |-> TRUE,
                  transactions |->
                    PageOf(Filtered(transactions, uarg[p].userId, resolved[p].user_id),
                           uarg[p].receiver # NoId, uarg[p].page, uarg[p].limit)]
                 @@ Pagination(uarg[p].page, uarg[p].limit, listing[p].total)]
  /\ UNCHANGED <<users, profile, op, uarg, resolved>>
  /\ UNCHANGED ledgerVars
  /\ UNCHANGED authVars

(* -------- TransactionController: GET /transaction/user/:userId -------- *)
(* the page and limit query strings a client can send: none, '0', '1',     *)
(* '2', '101' and one that is no number                                    *)
QueryNumbers ==
  {NoId, <<"0">>, <<"1">>, <<"2">>, <<"1", "0", "1">>, <<"x">>}

DigitSeq == <<"0", "1", "2", "3", "4", "5", "6", "7", "8", "9">>
DigitValue(c) == (CHOOSE i \in 1..10 : DigitSeq[i] = c) - 1

(* the digits s starts with *)
DigitPrefixLen(s) ==
  CHOOSE n \in 0..Len(s) :
    /\ \A i \in 1..n : s[i] \in Digits
    /\ n = Len(s) \/ s[n + 1] \notin Digits

RECURSIVE DecimalValue(_, _)
DecimalValue(s, n) ==
  IF n = 0 THEN 0 ELSE 10 * DecimalValue(s, n - 1) + DigitValue(s[n])

(* parseInt(s, 10) of a string without leading white space: an optional    *)
(* sign, then the digits up to the first other character; NaN when there   *)
(* is no digit                                                             *)
ParseInt(s) ==
  LET signed == Len(s) > 0 /\ s[1] \in {"+", "-"}
      body == IF signed THEN Tail(s) ELSE s
      n == DigitPrefixLen(body)
  IN  IF n = 0 THEN NaN
      ELSE IF signed /\ s[1] = "-" THEN 0 - DecimalValue(body, n)
      ELSE DecimalValue(body, n)

(* page ? parseInt(page, 10) : 1 and limit ? parseInt(limit, 10) : 10 *)
PageNum(page) == IF page # NoId THEN ParseInt(page) ELSE 1
LimitNum(limit) == IF limit # NoId THEN ParseInt(limit) ELSE 10

(* pageNum < 1 *)
PageTooSmall(pageNum) == Less(pageNum, 1)

(* limitNum < 1 || limitNum > 100 *)
LimitOutOfRange(limitNum) == Less(limitNum, 1) \/ Less(100, limitNum)

(* the handler up to the first await of the service: the query strings are *)
(* parsed and validated, a refused one is answered 400, else               *)
(* getTransactionsByUserId runs with the parsed numbers                    *)
GetUserTransactions(p) ==
  /\ pc[p] = "idle"
  /\ op' = [op EXCEPT ![p] = "GET /transaction/user"]
  /\ \E id \in UserIds, r \in Identifiers \cup {NoId},
        pg \in QueryNumbers, lm \in QueryNumbers :
       /\ uarg' = [uarg EXCEPT ![p] =
            [NoArg EXCEPT !.userId = id, !.receiver = r,
                          !.pageQuery = pg, !.limitQuery = lm,
                          !.page = PageNum(pg), !.limit = LimitNum(lm)]]
       /\ IF PageTooSmall(PageNum(pg))
          THEN Finish(p, PageRejected)
          ELSE IF LimitOutOfRange(LimitNum(lm))
          THEN Finish(p, LimitRejected)
          ELSE /\ pc' = [pc EXCEPT ![p] = IF r = NoId THEN "gt_count" ELSE "gt_resolve"]
               /\ UNCHANGED result
  /\ UNCHANGED <<users, profile, resolved, listing>>
  /\ UNCHANGED ledgerVars
  /\ UNCHANGED authVars

(* ------------------------- FirebaseAdminService ----------------------- *)
(* what ensureInitialized leaves alone *)
requestVars == <<users, profile, transactions, insertedBy, newTransaction, chain,
                 broadcast, sentFeePayers, op, pc, tx, req, signature, txnStatus, td,
                 result, ctOut, calls, uarg, resolved, listing>>

(* a variant that initializes on every construction *)
NoAppYetAlways(apps) == TRUE

(* !getApps().length *)
NoAppYet(apps) == Cardinality(apps) = 0

(* new FirebaseAdminService(): the field initializer runs ensureInitialized *)
(* which has no await. initializeApp registers the default app and returns *)
(* it; getApp() returns the default app.                                   *)
ConstructFirebaseAdminService ==
  /\ Len(firebaseApp.services) < MaxServices
  /\ firebaseApp' =
       IF NoAppYet(firebaseApp.apps)
       THEN [apps |-> firebaseApp.apps \cup {DefaultApp},
             initializeAppCalls |-> firebaseApp.initializeAppCalls + 1,
             services |-> Append(firebaseApp.services, DefaultApp)]
       ELSE [firebaseApp EXCEPT !.services = Append(@, DefaultApp)]
  /\ UNCHANGED <<jwtConfig, issued, session>>
  /\ UNCHANGED requestVars

(* ----------------------------- JwtAuthService -------------------------- *)
Unauthorized(message) == Thrown("UnauthorizedException: " \o message)
SecretNotConfigured == Thrown("Error: JWT secret is not configured")
TokensIssued(message) == Returned(TRUE, message, NoSig)

(* jwtService.verifyAsync(token, { secret, issuer, audience }): the token  *)
(* was signed with the secret and is in its validity (not expired, issuer  *)
(* and audience as configured)                                             *)
VerifyAsync(t, secret, valid) == t.type # "none" /\ t.secret = secret /\ valid

(* a variant without the test of the payload type *)
AccessTokenAcceptedAnyType(t, config, valid) ==
  config.access # "" /\ VerifyAsync(t, config.access, valid)

(* verifyAccessToken returns the payload: getAccessSecret finds a secret,  *)
(* verifyAsync resolves and payload.type is 'access'; anything else is     *)
(* caught and thrown as UnauthorizedException                              *)
AccessTokenAccepted(t, config, valid) ==
  config.access # "" /\ VerifyAsync(t, config.access, valid) /\ t.type = "access"

(* verifyRefreshToken returns the payload *)
RefreshTokenAccepted(t, config, valid) ==
  config.refresh # "" /\ VerifyAsync(t, config.refresh, valid) /\ t.type = "refresh"

(* the tokens generateTokenPair signs for a user *)
TokenPairFor(config, user) ==
  [accessToken |-> [type |-> "access", secret |-> config.access, sub |-> user],
   refreshToken |-> [type |-> "refresh", secret |-> config.refresh, sub |-> user]]

(* tokens a client can present: any token issued so far, or a foreign one *)
Presentable == issued \cup ForeignTokens

(* generateTokenPair for the user of the request: a secret that is not     *)
(* configured throws before any token is returned; POST /user/create       *)
(* answers 500 to the throw and else returns the user with the tokens      *)
GenerateTokenPair(p) ==
  /\ pc[p] = "tokens"
  /\ IF jwtConfig.access = "" \/ jwtConfig.refresh = ""
     THEN /\ Finish(p, IF op[p] = "POST /user/create"
                       THEN InternalServerError(SecretNotConfigured.message)
                       ELSE SecretNotConfigured)
          /\ UNCHANGED <<issued, session>>
     ELSE /\ issued' = issued \cup {TokenPairFor(jwtConfig, session[p].user).accessToken,
                                    TokenPairFor(jwtConfig, session[p].user).refreshToken}
          /\ session' = [session EXCEPT ![p].tokens =
               TokenPairFor(jwtConfig, session[p].user)]
          /\ Finish(p, TokensIssued(
               IF op[p] # "POST /user/create" THEN ""
               ELSE IF session[p].isNewUser THEN UserCreated.message
               ELSE UserFound.message))
  /\ UNCHANGED <<users, profile, op, uarg, resolved, listing, firebaseApp, jwtConfig>>
  /\ UNCHANGED ledgerVars

(* JwtAccessGuard.canActivate: no bearer token throws 'Missing access      *)
(* token', else verifyAccessToken decides                                  *)
CanActivate(p) ==
  /\ pc[p] = "idle"
  /\ op' = [op EXCEPT ![p] = "canActivate"]
  /\ \E t \in Presentable \cup {NoJwt}, valid \in BOOLEAN :
       /\ session' = [session EXCEPT ![p].presented = t,
                                     ![p].accepted = AccessTokenAccepted(t, jwtConfig, valid)]
       /\ Finish(p, IF t = NoJwt THEN Unauthorized("Missing access token")
                    ELSE IF AccessTokenAccepted(t, jwtConfig, valid)
                    THEN Returned(TRUE, "", NoSig)
                    ELSE Unauthorized("Invalid access token"))
  /\ UNCHANGED <<users, profile, uarg, resolved, listing, firebaseApp, jwtConfig, issued>>
  /\ UNCHANGED ledgerVars

(* rotateTokens up to the await of verifyRefreshToken *)
RotateTokens(p) ==
  /\ pc[p] = "idle"
  /\ op' = [op EXCEPT ![p] = "rotateTokens"]
  /\ pc' = [pc EXCEPT ![p] = "rt_verify"]
  /\ \E t \in Presentable : session' = [session EXCEPT ![p].presented = t]
  /\ UNCHANGED <<users, profile, result, uarg, resolved, listing, firebaseApp,
                 jwtConfig, issued>>
  /\ UNCHANGED ledgerVars

(* verifyRefreshToken answers: the payload's sub is the user the new pair  *)
(* is generated for, a rejection leaves rotateTokens                       *)
RtVerify(p) ==
  /\ pc[p] = "rt_verify"
  /\ \E valid \in BOOLEAN :
       IF RefreshTokenAccepted(session[p].presented, jwtConfig, valid)
       THEN /\ session' = [session EXCEPT ![p].accepted = TRUE,
                                          ![p].user = session[p].presented.sub]
            /\ pc' = [pc EXCEPT ![p] = "tokens"]
            /\ UNCHANGED result
       ELSE /\ Finish(p, Unauthorized("Invalid refresh token"))
            /\ UNCHANGED session
  /\ UNCHANGED <<users, profile, op, uarg, resolved, listing, firebaseApp, jwtConfig,
                 issued>>
  /\ UNCHANGED ledgerVars

(* -------------------- UsersController: POST /user/create --------------- *)
(* the handler up to the await of verifyIdToken: a body without            *)
(* phoneNumber or idToken is refused (the handler's catch turns every      *)
(* error into a 500 response carrying its message)                         *)
PostUserCreate(p) ==
  /\ pc[p] = "idle"
  /\ Len(firebaseApp.services) > 0
  /\ op' = [op EXCEPT ![p] = "POST /user/create"]
  /\ \E ph \in PhoneNumbers \cup {NoId}, idt \in IdTokens :
       /\ uarg' = [uarg EXCEPT ![p] = [NoArg EXCEPT !.phoneNumber = ph]]
       /\ session' = [session EXCEPT ![p].idToken = idt]
       /\ IF ph = NoId
          THEN Finish(p, InternalServerError("phoneNumber is required"))
          ELSE IF idt = ""
          THEN Finish(p, InternalServerError("idToken is required"))
          ELSE /\ pc' = [pc EXCEPT ![p] = "verify_id"]
               /\ UNCHANGED result
  /\ UNCHANGED <<users, profile, resolved, listing, firebaseApp, jwtConfig, issued>>
  /\ UNCHANGED ledgerVars

(* a variant that goes on to createUser whatever verifyIdToken answered *)
IdTokenVerifiedAlways(idToken, answers) == TRUE

(* getAuth(this.app).verifyIdToken(idToken) resolves: the token is one     *)
(* Firebase issued and the verification itself does not fail               *)
IdTokenVerified(idToken, answers) == idToken = "genuine" /\ answers

(* await this.firebaseAdminService.verifyIdToken(idToken): a rejection is  *)
(* answered 'Invalid idToken', else createUser is awaited                  *)
VerifyIdToken(p) ==
  /\ pc[p] = "verify_id"
  /\ \E answers \in BOOLEAN :
       IF IdTokenVerified(session[p].idToken, answers)
       THEN /\ session' = [session EXCEPT ![p].verified =
                 session[p].idToken = "genuine" /\ answers]
            /\ pc' = [pc EXCEPT ![p] = "cu_find"]
            /\ UNCHANGED result
       ELSE /\ Finish(p, InternalServerError("Invalid idToken"))
            /\ UNCHANGED session
  /\ UNCHANGED <<users, profile, op, uarg, resolved, listing, firebaseApp, jwtConfig,
                 issued>>
  /\ UNCHANGED ledgerVars

(* the request is over and its client sends the next one *)
NextRequest(p) ==
  /\ pc[p] = "done"
  /\ op' = [op EXCEPT ![p] = "none"]
  /\ pc' = [pc EXCEPT ![p] = "idle"]
  /\ tx' = [tx EXCEPT ![p] = NoTx]
  /\ signature' = [signature EXCEPT ![p] = NoSig]
  /\ td' = [td EXCEPT ![p] = NoTd]
  /\ result' = [result EXCEPT ![p] = NoResult]
  /\ ctOut' = [ctOut EXCEPT ![p] = NoResult]
  /\ calls' = [calls EXCEPT ![p] = NoCalls]
  /\ uarg' = [uarg EXCEPT ![p] = NoArg]
  /\ resolved' = [resolved EXCEPT ![p] = Unresolved]
  /\ listing' = [listing EXCEPT ![p] = NoListing]
  /\ newTransaction' = [newTransaction EXCEPT ![p] = NoTd]
  /\ session' = [session EXCEPT ![p] = NoSession]
  /\ UNCHANGED <<users, profile, transactions, insertedBy, chain, broadcast,
                 sentFeePayers, req, txnStatus, firebaseApp, jwtConfig, issued>>

(* ------------------------------ specification ------------------------- *)
Next ==
  \/ \E sig \in Hashes : NetworkAdvance(sig)
  \/ \E p \in Procs : TransferSpl(p)
  \/ \E p \in Procs : GetLatestBlockhash(p)
  \/ \E p \in Procs : SendRawTransaction(p)
  \/ \E p \in Procs : GetTxnStatus(p)
  \/ \E p \in Procs : Sleep(p)
  \/ \E p \in Procs : CreateTransaction(p)
  \/ \E p \in Procs : CtSender(p)
  \/ \E p \in Procs : CtReceiver(p)
  \/ \E p \in Procs : CtHash(p)
  \/ \E p \in Procs : CtInsert(p)

Spec == Init /\ [][Next]_vars

(* Fair scheduling: the event loop resumes every request whose awaited     *)
(* promise has settled (the RPC or store call answers, the 500 ms timer    *)
(* fires). Nothing is assumed of the network.                              *)
Fairness ==
  \A p \in Procs :
    /\ WF_vars(GetLatestBlockhash(p))
    /\ WF_vars(SendRawTransaction(p))
    /\ WF_vars(GetTxnStatus(p))
    /\ WF_vars(Sleep(p))
    /\ WF_vars(CtSender(p))
    /\ WF_vars(CtReceiver(p))
    /\ WF_vars(CtHash(p))
    /\ WF_vars(CtInsert(p))

(* one client's transferSpl request, another client's POST /transaction   *)
(* and the network                                                         *)
TransferClients == {"p1"}
PostingClients == {"p2"}

NextTransfers ==
  \/ \E sig \in Hashes : NetworkAdvance(sig)
  \/ \E p \in TransferClients : TransferSpl(p)
  \/ \E p \in TransferClients : GetLatestBlockhash(p)
  \/ \E p \in TransferClients : SendRawTransaction(p)
  \/ \E p \in TransferClients : GetTxnStatus(p)
  \/ \E p \in TransferClients : Sleep(p)
  \/ \E p \in PostingClients : CreateTransaction(p)
  \/ \E p \in Procs : CtSender(p)
  \/ \E p \in Procs : CtReceiver(p)
  \/ \E p \in Procs : CtHash(p)
  \/ \E p \in Procs : CtInsert(p)

SpecFair == Init /\ [][NextTransfers]_vars /\ Fairness

(* ---------------- accounts next to ledger writes ----------------------- *)
(* One client posts a transaction while another runs an account operation, *)
(* from a users table with one or with two accounts.                       *)
LedgerClients == {"p1"}
AccountClients == {"p2"}

InitAccounts ==
  /\ \E us \in {{"u1"}, {"u1", "u2"}} : Accounts(us)
  /\ transactions = <<>>
  /\ insertedBy = <<>>
  /\ Idle

NextAccounts ==
  \/ \E p \in LedgerClients : CreateTransaction(p)
  \/ \E p \in LedgerClients : CtSender(p)
  \/ \E p \in LedgerClients : CtReceiver(p)
  \/ \E p \in LedgerClients : CtHash(p)
  \/ \E p \in LedgerClients : CtInsert(p)
  \/ \E p \in AccountClients : CreateUser(p)
  \/ \E p \in AccountClients : CuFind(p)
  \/ \E p \in AccountClients : CuInsert(p)
  \/ \E p \in AccountClients : UpdateUser(p)
  \/ \E p \in AccountClients : RegisterCronId(p)
  \/ \E p \in AccountClients : RcCheck(p)
  \/ \E p \in AccountClients : RcUpdate(p)
  \/ \E p \in AccountClients : OnboardUser(p)
  \/ \E p \in AccountClients : GetLatestBlockhash(p)
  \/ \E p \in AccountClients : SendRawTransaction(p)
  \/ \E p \in AccountClients : ObUpdate(p)

SpecAccounts == InitAccounts /\ [][NextAccounts]_vars

(* ---------------- requests through the controllers --------------------- *)
(* One client sends POST /user/transfer-spl or POST /transaction with any  *)
(* of the token arrays a body can carry.                                   *)
NextTokens ==
  \/ \E sig \in Hashes : NetworkAdvance(sig)
  \/ \E p \in LedgerClients : PostTransferSpl(p)
  \/ \E p \in LedgerClients : GetLatestBlockhash(p)
  \/ \E p \in LedgerClients : SendRawTransaction(p)
  \/ \E p \in LedgerClients : GetTxnStatus(p)
  \/ \E p \in LedgerClients : Sleep(p)
  \/ \E p \in LedgerClients : PostTransaction(p)
  \/ \E p \in LedgerClients : CtSender(p)
  \/ \E p \in LedgerClients : CtReceiver(p)
  \/ \E p \in LedgerClients : CtHash(p)
  \/ \E p \in LedgerClients : CtInsert(p)

SpecTokens == Init /\ [][NextTokens]_vars

(* ---------------- listing next to account changes --------------------- *)
(* Two clients, each sending one request after the other: both list        *)
(* transactions with a receiver identifier, one of them also creates       *)
(* accounts and registers cron ids. The transactions table holds one row   *)
(* that an earlier request wrote.                                          *)
EarlierRow ==
  [transaction_hash |-> 1, sender_uid |-> "u1", receiver_uid |-> "u1",
   amount |-> 5, token |-> <<[amount |-> "1", token_address |-> "mintA"]>>,
   chain_id |-> SolanaChainId, status |-> "pending"]

InitListing ==
  /\ Accounts({"u1"})
  /\ transactions = <<EarlierRow>>
  /\ insertedBy = <<"earlier">>
  /\ Idle

NextListing ==
  \/ \E p \in Procs : GetTransactionsByUserId(p)
  \/ \E p \in Procs : GtResolve(p)
  \/ \E p \in Procs : GtCount(p)
  \/ \E p \in Procs : GtSelect(p)
  \/ \E p \in AccountClients : CreateUser(p)
  \/ \E p \in AccountClients : CuFind(p)
  \/ \E p \in AccountClients : CuInsert(p)
  \/ \E p \in AccountClients : RegisterCronId(p)
  \/ \E p \in AccountClients : RcCheck(p)
  \/ \E p \in AccountClients : RcUpdate(p)
  \/ \E p \in Procs : NextRequest(p)

SpecListing == InitListing /\ [][NextListing]_vars

(* ---------------- statuses of created rows ----------------------------- *)
(* Two clients call createTransaction with any of the statuses a caller    *)
(* can give, or with none.                                                 *)
NextStatus ==
  \/ \E p \in Procs : CreateTransactionGiven(p, TokenLists, AllStatusArgs)
  \/ \E p \in Procs : CtSender(p)
  \/ \E p \in Procs : CtReceiver(p)
  \/ \E p \in Procs : CtHash(p)
  \/ \E p \in Procs : CtInsert(p)

SpecStatus == Init /\ [][NextStatus]_vars

(* ---------------- concurrent cron id registrations -------------------- *)
(* Two clients register cron ids, one request after another, for the       *)
(* accounts of a users table with one or with two accounts.                *)
NextCronIds ==
  \/ \E p \in Procs : RegisterCronId(p)
  \/ \E p \in Procs : RcCheck(p)
  \/ \E p \in Procs : RcUpdate(p)
  \/ \E p \in Procs : NextRequest(p)

SpecCronIds == InitAccounts /\ [][NextCronIds]_vars

(* ---------------- sign-up and tokens ----------------------------------- *)
(* The process constructs its FirebaseAdminService instances; two clients  *)
(* sign up through POST /user/create, present tokens to the guard and      *)
(* rotate them, one request after another, under each configuration of     *)
(* the secrets.                                                            *)
InitAuth ==
  /\ Accounts({"u1"})
  /\ transactions = <<>>
  /\ insertedBy = <<>>
  /\ firebaseApp = NoFirebaseApp
  /\ jwtConfig \in JwtConfigs
  /\ NoSessions
  /\ Quiet

NextAuth ==
  \/ ConstructFirebaseAdminService
  \/ \E p \in Procs : PostUserCreate(p)
  \/ \E p \in Procs : VerifyIdToken(p)
  \/ \E p \in Procs : CuFind(p)
  \/ \E p \in Procs : CuInsert(p)
  \/ \E p \in Procs : GenerateTokenPair(p)
  \/ \E p \in Procs : CanActivate(p)
  \/ \E p \in Procs : RotateTokens(p)
  \/ \E p \in Procs : RtVerify(p)
  \/ \E p \in Procs : NextRequest(p)

SpecAuth == InitAuth /\ [][NextAuth]_vars

(* ---------------- pages of a listing ----------------------------------- *)
(* One client sends GET /transaction/user/:userId with any of the page and *)
(* limit query strings, over a transactions table of up to MaxRows rows.   *)
PagingClients == {"p1"}

InitPaging ==
  /\ Accounts({"u1"})
  /\ \E k \in 0..MaxRows :
       /\ transactions = [i \in 1..k |-> [EarlierRow EXCEPT !.transaction_hash = i]]
       /\ insertedBy = [i \in 1..k |-> "earlier"]
  /\ Idle

NextPaging ==
  \/ \E p \in PagingClients : GetUserTransactions(p)
  \/ \E p \in PagingClients : GtResolve(p)
  \/ \E p \in PagingClients : GtCount(p)
  \/ \E p \in PagingClients : GtSelect(p)

SpecPaging == InitPaging /\ [][NextPaging]_vars


(* ============================== claims ================================= *)
IsTransfer(p) == op[p] = "transferSpl"
RowsInsertedBy(p) == {i \in DOMAIN transactions : insertedBy[i] = p}
TransferSucceeded(p) ==
  IsTransfer(p) /\ result[p].kind = "return" /\ result[p].success
FinalizedWithError(st) ==
  st.value = "status" /\ st.confirmationStatus = "finalized" /\ st.err
FinalizedWithoutError(st) ==
  st.value = "status" /\ st.confirmationStatus = "finalized" /\ ~st.err
TransferFailure(sig) == Returned(FALSE, "SPL token transfer failed", sig)

(* C1: whenever transferSpl has returned success:true with a signature,    *)
(* the transactions store holds exactly one row whose transaction_hash is  *)
(* that signature, whatever createTransaction returned.                    *)
C1_SuccessHasExactlyOneRow ==
  \A p \in Procs :
    TransferSucceeded(p) =>
      Cardinality(RowsWithHash(transactions, result[p].signature)) = 1

(* C2: transferSpl calls createTransaction only after getTxnStatus has     *)
(* returned a finalized status without error for the broadcast signature;  *)
(* no row is written for a signature last observed as null or not          *)
(* finalized.                                                              *)
C2_LedgerWriteOnlyAfterFinalized ==
  \A p \in Procs :
    (IsTransfer(p) /\ (calls[p].createTransaction > 0 \/ RowsInsertedBy(p) # {}))
      => FinalizedWithoutError(txnStatus[p])

(* C3: in the confirmation loop every observation that is null or not      *)
(* finalized is followed by a wait and another getTxnStatus call; the loop *)
(* is left only on a finalized observation.                                *)
C3_LoopLeftOnlyOnFinalized ==
  [][\A p \in Procs :
       (pc[p] = "status" /\ pc'[p] # "status" /\ calls'[p].threw = "")
         => IF txnStatus'[p].confirmationStatus = "finalized"
            THEN pc'[p] \in {"done", "ct_sender"}
            ELSE pc'[p] = "sleep"]_vars

C5_HashWrittenAtMostOnce ==
  /\ [](\A h \in Hashes : Cardinality(RowsWithHash(transactions, h)) <= 1)
  /\ [][\A i \in DOMAIN transactions :
          i \in DOMAIN transactions' /\ transactions'[i] = transactions[i]]_vars

(* two requests passed the hash check for the same hash; one inserted and  *)
(* the store rejected the insert of the other                              *)
C5_Witness ==
  \E p \in Procs, q \in Procs :
    /\ p # q
    /\ ctOut[p] = Created
    /\ ctOut[q] = UniqueViolation
    /\ td[p].transaction_hash = td[q].transaction_hash

(* C6: when two createTransaction calls for the same hash both pass the    *)
(* hash check and the uniqueness constraint rejects the later insert, the  *)
(* losing call returns the DuplicateTransaction result instead of throwing.*)
C6_ConflictReturnsDuplicate ==
  [][\A p \in Procs :
       (/\ pc[p] = "ct_insert"
        /\ pc'[p] = "done"
        /\ RowsWithHash(transactions, td[p].transaction_hash) # {})
         => ctOut'[p] = DuplicateTransaction]_vars

(* C7: if a row with the given hash exists when createTransaction, called  *)
(* with an existing sender and receiver, performs its hash check (the      *)
(* lookup itself answering), it returns the duplicate result without       *)
(* throwing and inserts nothing: the store is unchanged by the attempt.    *)
C7_ExistingHashReturnsDuplicate ==
  [][\A p \in Procs :
       (/\ pc[p] = "ct_hash"
        /\ pc'[p] # "ct_hash"
        /\ RowsWithHash(transactions, td[p].transaction_hash) # {}
        /\ ctOut'[p] # HashCheckFailed)
         => /\ ctOut'[p] = DuplicateTransaction
            /\ pc'[p] = "done"
            /\ transactions' = transactions
            /\ (op[p] = "createTransaction" => result'[p] = DuplicateTransaction)]_vars

C7_Witness ==
  \E p \in Procs :
    /\ ctOut[p] = DuplicateTransaction
    /\ td[p].sender_uid \in users /\ td[p].receiver_uid \in users
    /\ Cardinality(RowsWithHash(transactions, td[p].transaction_hash)) = 1
    /\ RowsInsertedBy(p) = {}

(* C8: a transaction whose declared fee payer differs from the server key  *)
(* (or a legacy one that declares none) makes signAndSendTransaction throw *)
(* before any sendRawTransaction call and, for the legacy format, before   *)
(* getLatestBlockhash: nothing is ever broadcast for it.                   *)
C8_NoBroadcastOnFeePayerMismatch ==
  /\ sentFeePayers \subseteq {ServerKey}
  /\ \A p \in Procs :
       /\ pc[p] \in {"blockhash", "send"} => tx[p].feePayer = ServerKey
       /\ result[p] = Thrown(FeePayerMismatch)
            => /\ calls[p].sendRawTransaction = 0
               /\ calls[p].getLatestBlockhash = 0
               /\ signature[p] = NoSig

(* one request was refused for its fee payer while another one broadcast *)
C8_Witness ==
  \E p \in Procs, q \in Procs :
    /\ result[p] = Thrown(FeePayerMismatch)
    /\ calls[p].sendRawTransaction = 0
    /\ calls[q].sendRawTransaction = 1

(* C9: if signAndSendTransaction or getTxnStatus throws during             *)
(* transferSpl, the exception leaves transferSpl, createTransaction is     *)
(* never called and the request inserts no row.                            *)
C9_ThrowLeavesLedgerUntouched ==
  \A p \in Procs :
    (IsTransfer(p) /\ calls[p].threw \in {"signAndSendTransaction", "getTxnStatus"})
      => /\ pc[p] = "done"
         /\ result[p].kind = "throw"
         /\ calls[p].createTransaction = 0
         /\ RowsInsertedBy(p) = {}

C9_Witness ==
  \E p \in Procs, q \in Procs :
    /\ IsTransfer(p) /\ calls[p].threw = "getTxnStatus"
    /\ result[p] = Thrown(StatusError)
    /\ IsTransfer(q) /\ calls[q].threw = "signAndSendTransaction"
    /\ result[q] = Thrown(BroadcastError)

C12_Polling(p) == pc[p] \in {"status", "sleep"}
C12_Writing(p) == pc[p] \in {"ct_sender", "ct_receiver", "ct_hash", "ct_insert"}
C12_BroadcastPollWriteInOrder ==
  /\ [](\A p \in Procs :
         IsTransfer(p) =>
           /\ calls[p].sendRawTransaction <= 1
           /\ calls[p].createTransaction <= 1
           /\ signature[p] = NoSig
                => /\ txnStatus[p] = Unpolled
                   /\ calls[p].createTransaction = 0
                   /\ ~C12_Polling(p) /\ ~C12_Writing(p)
           /\ signature[p] # NoSig => calls[p].sendRawTransaction = 1
           /\ C12_Polling(p) => signature[p] # NoSig /\ calls[p].createTransaction = 0
           /\ C12_Writing(p) => calls[p].createTransaction = 1
           /\ calls[p].createTransaction > 0
                => txnStatus[p] # Unpolled /\ (C12_Writing(p) \/ pc[p] = "done"))
  /\ [][\A p \in Procs :
          (IsTransfer(p) /\ calls[p].createTransaction > 0)
            => /\ txnStatus'[p] = txnStatus[p]
               /\ signature'[p] = signature[p]
               /\ calls'[p].sendRawTransaction = calls[p].sendRawTransaction]_vars

(* a transfer that broadcast, observed its signature finalized and then    *)
(* wrote its row                                                           *)
C12_Witness ==
  \E p \in Procs :
    /\ IsTransfer(p)
    /\ calls[p].sendRawTransaction = 1
    /\ calls[p].createTransaction = 1
    /\ txnStatus[p].confirmationStatus = "finalized"
    /\ RowsInsertedBy(p) # {}
    /\ result[p].kind = "return"

(* C13: every row a transferSpl request inserted carries the broadcast     *)
(* signature as transaction_hash, status 'completed', chain id 101 and the *)
(* sender id, receiver id, amount and token list given to transferSpl; no  *)
(* such row has status 'pending' or 'failed'.                              *)
C13_TransferRowAsSupplied ==
  \A p \in Procs :
    IsTransfer(p) =>
      \A i \in RowsInsertedBy(p) :
        /\ signature[p] \in broadcast
        /\ transactions[i] =
             [transaction_hash |-> signature[p],
              sender_uid |-> req[p].senderUid,
              receiver_uid |-> req[p].receiverUid,
              amount |-> req[p].amount,
              token |-> req[p].token,
              chain_id |-> 101,
              status |-> "completed"]
        /\ transactions[i].status \notin {"pending", "failed"}

(* a transfer row next to a row POST /transaction created as 'pending' *)
C13_Witness ==
  \E p \in Procs, q \in Procs :
    /\ IsTransfer(p) /\ RowsInsertedBy(p) # {}
    /\ op[q] = "createTransaction" /\ RowsInsertedBy(q) # {}
    /\ \E i \in RowsInsertedBy(p), j \in RowsInsertedBy(q) :
         transactions[i].status = "completed" /\ transactions[j].status = "pending"

(* C14: resolveReceiverIdentifier makes one lookup, chosen by the shape of *)
(* the identifier, first match wins: by user_id for a UUID-shaped          *)
(* identifier, else by phone_number for one that starts with '+' or is all *)
(* digits, else by cron_id. When the lookup answers, the result is the     *)
(* user_id of the account that matches in that one column of the current   *)
(* users table, and null when none does, whatever the other columns hold.  *)
C14_OneLookupByShape ==
  [][\A p \in Procs :
       (pc[p] = "gt_resolve" /\ pc'[p] # "gt_resolve" /\ ~resolved'[p].error)
         => LET id == uarg[p].receiver
                byUserId == {u \in users : UuidOf(u) = id}
                byPhone == {u \in users : profile[u].phone_number = id}
                byCronId == {u \in users : profile[u].cron_id = id}
                chosen == IF UuidShaped(id) THEN byUserId
                          ELSE IF StartsWithPlus(id) \/ AllDigits(id) THEN byPhone
                          ELSE byCronId
            IN  /\ resolved'[p].called
                /\ IF chosen = {}
                   THEN resolved'[p].user_id = NoUser
                   ELSE resolved'[p].user_id \in chosen]_vars

(* the same phone number resolved to null before its account existed and   *)
(* to the account afterwards, while the other account holds the same       *)
(* digits as its cron id                                                   *)
C14_Witness ==
  \E p \in Procs, q \in Procs :
    /\ uarg[p].receiver = PhoneDigits /\ uarg[q].receiver = PhoneDigits
    /\ resolved[p].called /\ ~resolved[p].error /\ resolved[p].user_id = NoUser
    /\ resolved[q].called /\ ~resolved[q].error /\ resolved[q].user_id = "u2"
    /\ profile["u2"].phone_number = PhoneDigits
    /\ profile["u1"].cron_id = PhoneDigits

(* C15: resolveReceiverIdentifier is read-only and idempotent: a           *)
(* resolution changes neither the users nor the transactions table, and    *)
(* two answered resolutions of one identifier with no write to the users   *)
(* table between them return the same result.                              *)
C15_ResolveReadOnlyIdempotent ==
  /\ [](\A p \in Procs, q \in Procs :
         (/\ resolved[p].called /\ resolved[q].called
          /\ ~resolved[p].error /\ ~resolved[q].error
          /\ resolved[p].current /\ resolved[q].current
          /\ uarg[p].receiver = uarg[q].receiver)
           => resolved[p].user_id = resolved[q].user_id)
  /\ [][\A p \in Procs :
          (pc[p] = "gt_resolve" /\ pc'[p] # "gt_resolve")
            => /\ users' = users
               /\ profile' = profile
               /\ transactions' = transactions]_vars

(* two clients resolved the same identifier to the same account, one after *)
(* the other, after the account was created                                *)
C15_Witness ==
  \E p \in Procs, q \in Procs :
    /\ p # q
    /\ uarg[p].receiver = PhoneDigits /\ uarg[q].receiver = PhoneDigits
    /\ resolved[p].called /\ resolved[q].called
    /\ ~resolved[p].error /\ ~resolved[q].error
    /\ resolved[p].current /\ resolved[q].current
    /\ resolved[p].user_id = "u2" /\ resolved[q].user_id = "u2"

(* C16: a store failure other than 'no row' during the lookup of           *)
(* resolveReceiverIdentifier propagates as an exception: the request whose *)
(* lookup met the failure throws, it gets no null resolution and no empty  *)
(* transaction list.                                                       *)
C16_StoreFailurePropagates ==
  \A p \in Procs :
    (resolved[p].called /\ resolved[p].error)
      => /\ result[p].kind = "throw"
         /\ ~listing[p].returned

(* C17: once a transactions row is inserted no operation modifies or       *)
(* deletes it: in every step each stored row keeps its place and its hash, *)
(* sender, receiver, amount, token list and status, so that a status       *)
(* change, were one observed, could only be pending -> completed or        *)
(* pending -> failed; none is.                                             *)
C17_RowsImmutable ==
  [][/\ Len(transactions') >= Len(transactions)
     /\ \A i \in DOMAIN transactions :
          /\ transactions'[i].transaction_hash = transactions[i].transaction_hash
          /\ transactions'[i].sender_uid = transactions[i].sender_uid
          /\ transactions'[i].receiver_uid = transactions[i].receiver_uid
          /\ transactions'[i].amount = transactions[i].amount
          /\ transactions'[i].token = transactions[i].token
          /\ transactions'[i].status = transactions[i].status
          /\ (transactions'[i].status # transactions[i].status
                => /\ transactions[i].status = "pending"
                   /\ transactions'[i].status \in {"completed", "failed"})]_vars

(* a 'pending' row of POST /transaction is still pending after a transfer  *)
(* with the same signature finished and another row was written            *)
C17_Witness ==
  \E p \in Procs, q \in Procs :
    /\ op[p] = "createTransaction" /\ ctOut[p] = Created
    /\ IsTransfer(q) /\ pc[q] = "done" /\ ctOut[q] = DuplicateTransaction
    /\ signature[q] = td[p].transaction_hash
    /\ \E i \in RowsInsertedBy(p) : transactions[i].status = "pending"

C19_TokenListsWellFormed ==
  \A i \in DOMAIN transactions :
    /\ Len(transactions[i].token) > 0
    /\ \A j \in 1..Len(transactions[i].token) :
         /\ transactions[i].token[j].amount # ""
         /\ transactions[i].token[j].token_address # ""

(* C20: under fair scheduling, a transferSpl request that is in its        *)
(* polling loop while the network reports its signature as finalized (a    *)
(* report the network then keeps) eventually leaves the loop and ends: it  *)
(* returns its result to the caller, or throws if an RPC or store call     *)
(* fails on the way.                                                       *)
C20_FinalizedEndsPolling ==
  \A p \in Procs :
    (/\ IsTransfer(p)
     /\ pc[p] \in {"status", "sleep"}
     /\ chain[signature[p]].confirmationStatus = "finalized")
      ~> (pc[p] = "done" /\ result[p].kind \in {"return", "throw"})

(* a transfer that saw its signature finalized and returned success,       *)
(* after a POST /transaction with the same hash was answered as duplicate  *)
C20_Witness ==
  \E p \in Procs, q \in Procs :
    /\ IsTransfer(p) /\ pc[p] = "done"
    /\ txnStatus[p].confirmationStatus = "finalized"
    /\ chain[signature[p]].confirmationStatus = "finalized"
    /\ result[p].kind = "return" /\ result[p].success
    /\ RowsInsertedBy(p) # {}
    /\ op[q] = "createTransaction" /\ ctOut[q] = DuplicateTransaction
    /\ td[q].transaction_hash = signature[p]

(* two transferSpl requests that were given different signatures *)
C21_Apart(p, q) ==
  /\ p # q /\ IsTransfer(p) /\ IsTransfer(q)
  /\ signature[p] # NoSig /\ signature[q] # NoSig
  /\ signature[p] # signature[q]

(* C21: of two concurrent transferSpl invocations with different broadcast *)
(* signatures, each one's response and the presence of its ledger row      *)
(* depend only on the final status of its own signature: once the          *)
(* signature is finalized and the invocation has returned, it returned     *)
(* success and a row with the signature is stored exactly when the         *)
(* finalized status carries no error.                                      *)
C21_OutcomeFollowsOwnFinalStatus ==
  \A p \in Procs, q \in Procs :
    (/\ C21_Apart(p, q)
     /\ pc[p] = "done" /\ result[p].kind = "return"
     /\ chain[signature[p]].confirmationStatus = "finalized")
      => /\ result[p].success <=> ~chain[signature[p]].err
         /\ RowsWithHash(transactions, signature[p]) # {} <=> ~chain[signature[p]].err

(* what C21 leaves standing: neither invocation affects the other. A row   *)
(* with an invocation's signature is its own, its createTransaction call   *)
(* never meets a duplicate, its response is the one its own last observed  *)
(* status calls for, and a step of the other invocation changes none of    *)
(* its signature, observed status, response and rows.                      *)
C21_NoInterference ==
  /\ [](\A p \in Procs, q \in Procs :
         C21_Apart(p, q) =>
           /\ \A i \in RowsWithHash(transactions, signature[p]) : insertedBy[i] = p
           /\ ctOut[p] \notin {DuplicateTransaction, UniqueViolation}
           /\ (pc[p] = "done" /\ result[p].kind = "return")
                => result[p] =
                     IF TransferFailed(txnStatus[p])
                     THEN TransferFailure(signature[p])
                     ELSE Returned(TRUE, "SPL token transfer completed successfully",
                                   signature[p]))
  /\ [][\A p \in Procs, q \in Procs :
          (C21_Apart(p, q) /\ pc'[q] # pc[q])
            => /\ signature'[p] = signature[p]
               /\ txnStatus'[p] = txnStatus[p]
               /\ result'[p] = result[p]
               /\ ctOut'[p] = ctOut[p]
               /\ {i \in DOMAIN transactions' : insertedBy'[i] = p} = RowsInsertedBy(p)]_vars

(* C22: GET /transaction/user/:userId uses page 1 and limit 10 when they   *)
(* are not given, answers 400 before any store query unless the page is at *)
(* least 1 and the limit within 1..100, and every page it returns carries  *)
(* totalPages = ceil(total / limit), hasNext = (page < totalPages) and     *)
(* hasPrev = (page > 1).                                                   *)
C22_PaginationAsDocumented ==
  \A p \in Procs :
    op[p] = "GET /transaction/user" =>
      /\ uarg[p].pageQuery = NoId => uarg[p].page = 1
      /\ uarg[p].limitQuery = NoId => uarg[p].limit = 10
      /\ ~(uarg[p].page >= 1 /\ uarg[p].limit \in 1..100)
           => /\ pc[p] = "done"
              /\ result[p] \in {PageRejected, LimitRejected}
              /\ ~resolved[p].called /\ ~listing[p].returned
      /\ listing[p].returned
           => /\ listing[p].page = uarg[p].page /\ listing[p].limit = uarg[p].limit
              /\ listing[p].totalPages * listing[p].limit >= listing[p].total
              /\ (listing[p].totalPages - 1) * listing[p].limit < listing[p].total
              /\ listing[p].hasNext <=> (listing[p].page < listing[p].totalPages)
              /\ listing[p].hasPrev <=> (listing[p].page > 1)

(* C23: a createTransaction call that succeeds has inserted exactly one    *)
(* row and returned it; the row carries the caller's values, status        *)
(* 'pending' when the caller gave no status and the caller's status        *)
(* ('pending', 'completed' or 'failed') when one was given. A call that    *)
(* does not succeed has inserted nothing.                                  *)
C23_StatusAsGivenOrPending ==
  \A p \in Procs :
    /\ ctOut[p] # Created => RowsInsertedBy(p) = {} /\ newTransaction[p] = NoTd
    /\ ctOut[p] = Created =>
         /\ Cardinality(RowsInsertedBy(p)) = 1
         /\ \A i \in RowsInsertedBy(p) :
              /\ newTransaction[p] = transactions[i]
              /\ transactions[i].transaction_hash = td[p].transaction_hash
              /\ transactions[i].sender_uid = td[p].sender_uid
              /\ transactions[i].receiver_uid = td[p].receiver_uid
              /\ transactions[i].amount = td[p].amount
              /\ transactions[i].token = td[p].token
              /\ transactions[i].chain_id = td[p].chain_id
              /\ td[p].status = "none" => transactions[i].status = "pending"
              /\ td[p].status \in {"pending", "completed", "failed"}
                   => transactions[i].status = td[p].status

(* one call without a status made a 'pending' row, another call made the   *)
(* 'completed' row it asked for                                            *)
C23_Witness ==
  \E p \in Procs, q \in Procs :
    /\ ctOut[p] = Created /\ td[p].status = "none"
    /\ newTransaction[p].status = "pending"
    /\ ctOut[q] = Created /\ td[q].status = "completed"
    /\ newTransaction[q].status = "completed"
    /\ Len(transactions) = 2

(* C24: signAndSendTransaction hands to sendRawTransaction a transaction   *)
(* the server key has signed. For a legacy transaction that is after one   *)
(* getLatestBlockhash call whose blockhash the transaction then carries;   *)
(* for a versioned transaction it is without any getLatestBlockhash call   *)
(* and with the blockhash the sender gave. Each invocation makes at most   *)
(* one getLatestBlockhash and one sendRawTransaction call, in that order,  *)
(* and the signature it returns is the one that broadcast returned.        *)
C24_BlockhashSignSendInOrder ==
  /\ [](\A p \in Procs :
         /\ calls[p].getLatestBlockhash <= 1 /\ calls[p].sendRawTransaction <= 1
         /\ pc[p] = "blockhash"
              => /\ tx[p].wire = "legacy" /\ ~tx[p].signedByServer
                 /\ calls[p].getLatestBlockhash = 0 /\ calls[p].sendRawTransaction = 0
         /\ pc[p] = "send"
              => /\ tx[p].signedByServer /\ tx[p].feePayer = ServerKey
                 /\ calls[p].sendRawTransaction = 0
                 /\ tx[p].wire \in {"legacy", "versioned"}
                 /\ tx[p].wire = "legacy"
                      => /\ calls[p].getLatestBlockhash = 1
                         /\ tx[p].recentBlockhash = "latest"
                 /\ tx[p].wire = "versioned"
                      => /\ calls[p].getLatestBlockhash = 0
                         /\ tx[p].recentBlockhash = "sender"
         /\ signature[p] # NoSig
              => signature[p] \in broadcast /\ calls[p].sendRawTransaction = 1)
  /\ [][\A p \in Procs :
          /\ calls'[p].getLatestBlockhash # calls[p].getLatestBlockhash
               => pc[p] = "blockhash" /\ calls[p].sendRawTransaction = 0
          /\ calls'[p].sendRawTransaction # calls[p].sendRawTransaction
               => pc[p] = "send"
          /\ signature'[p] # signature[p]
               => /\ pc[p] = "send"
                  /\ calls'[p].sendRawTransaction = 1
                  /\ signature'[p] \in broadcast']_vars

(* a legacy transaction was broadcast after one getLatestBlockhash call    *)
(* and a versioned one without any                                         *)
C24_Witness ==
  \E p \in Procs, q \in Procs :
    /\ IsTransfer(p) /\ signature[p] # NoSig
    /\ calls[p].getLatestBlockhash = 1 /\ calls[p].sendRawTransaction = 1
    /\ IsTransfer(q) /\ signature[q] # NoSig
    /\ calls[q].getLatestBlockhash = 0 /\ calls[q].sendRawTransaction = 1

(* C25: however many FirebaseAdminService instances the process            *)
(* constructs, initializeApp is called at most once: it is called only     *)
(* while no Firebase app exists, and every instance holds the one app.     *)
C25_InitializeAppAtMostOnce ==
  /\ [](/\ firebaseApp.initializeAppCalls <= 1
        /\ Cardinality(firebaseApp.apps) <= 1
        /\ firebaseApp.initializeAppCalls = Cardinality(firebaseApp.apps)
        /\ \A i \in DOMAIN firebaseApp.services :
             firebaseApp.services[i] \in firebaseApp.apps)
  /\ [][firebaseApp'.initializeAppCalls # firebaseApp.initializeAppCalls
          => /\ firebaseApp.apps = {}
             /\ firebaseApp'.initializeAppCalls = 1]_vars

(* every instance has been constructed and initializeApp was called once *)
C25_Witness ==
  /\ Len(firebaseApp.services) = MaxServices
  /\ MaxServices > 1
  /\ firebaseApp.initializeAppCalls = 1

(* the users holding cron id c *)
C26_Holders(c) == {u \in users : profile[u].cron_id = c}

(* C26: however concurrent registerCronId calls interleave, no two users   *)
(* hold the same cron_id; and a call whose cron id is shorter than 3       *)
(* characters, or whose availability lookup finds the cron id held by a    *)
(* user, returns success:false with the availability message in a step     *)
(* that updates no user (a call writes only in its last step, which        *)
(* returns success:true or throws).                                        *)
C26_CronIdsStayUnique ==
  /\ [](\A c \in CronIds : Cardinality(C26_Holders(c)) <= 1)
  /\ [][\A p \in Procs :
          /\ op'[p] = "registerCronId"
          /\ pc[p] \in {"idle", "rc_check"}
          /\ pc'[p] = "done"
          /\ result'[p].kind = "return"
          => /\ result'[p] = IF Len(uarg'[p].cronId) < 3 THEN CronIdTooShort
                             ELSE CronIdTaken
             /\ Len(uarg'[p].cronId) >= 3 => C26_Holders(uarg'[p].cronId) # {}
             /\ UNCHANGED <<users, profile>>]_vars
  /\ [][\A p \in Procs :
          /\ pc[p] = "rc_check"
          /\ pc'[p] # "rc_check"
          /\ C26_Holders(uarg[p].cronId) # {}
          => /\ pc'[p] = "done"
             /\ result'[p] \in {CronIdTaken, CronIdCheckFailed}
             /\ UNCHANGED <<users, profile>>]_vars
  /\ [][\A p \in Procs :
          /\ op'[p] = "registerCronId"
          /\ <<users, profile>>' # <<users, profile>>
          /\ pc[p] # pc'[p]
          => /\ pc[p] = "rc_update"
             /\ result'[p] = CronIdRegistered]_vars

(* both clients found the same cron id available, one registered it and    *)
(* the other's update was refused; the cron id has one holder              *)
C26_Witness ==
  /\ op["p1"] = "registerCronId" /\ op["p2"] = "registerCronId"
  /\ uarg["p1"].cronId = uarg["p2"].cronId
  /\ uarg["p1"].userId # uarg["p2"].userId
  /\ uarg["p2"].userId \in users
  /\ result["p1"] = CronIdRegistered
  /\ result["p2"] = CronIdRegisterFailed
  /\ Cardinality(C26_Holders(uarg["p1"].cronId)) = 1

(* the users created under phone number ph *)
C27_UsersOf(ph) == {u \in users : profile[u].phone_number = ph}

(* C27: createUser is idempotent per phone number: at most one user per    *)
(* phone_number; a call whose lookup finds a user returns that user with   *)
(* isNewUser:false and inserts nothing; and a call for a phone number      *)
(* without a user, when the store itself does not fail, inserts exactly    *)
(* one user and returns it with isNewUser:true.                            *)
C27_CreateUserIdempotent ==
  /\ [](\A ph \in PhoneNumbers : Cardinality(C27_UsersOf(ph)) <= 1)
  /\ [][\A p \in Procs :
          /\ pc[p] = "cu_find"
          /\ pc'[p] # "cu_find"
          /\ C27_UsersOf(uarg[p].phoneNumber) # {}
          /\ result'[p].kind # "throw"
          => /\ session'[p].user \in C27_UsersOf(uarg[p].phoneNumber)
             /\ session'[p].isNewUser = FALSE
             /\ UNCHANGED <<users, profile>>]_vars
  /\ [][\A p \in Procs :
          /\ pc[p] = "cu_insert"
          /\ pc'[p] # "cu_insert"
          /\ session'[p].refused # "store"
          => /\ Cardinality(users') = Cardinality(users) + 1
             /\ session'[p].user \in users' \ users
             /\ profile'[session'[p].user].phone_number = uarg[p].phoneNumber
             /\ session'[p].isNewUser = TRUE
             /\ session'[p].refused = ""]_vars

(* the part of C27 the code keeps: one user per phone number, and a found  *)
(* user is returned without a write                                        *)
C27_OneUserPerPhone ==
  /\ [](\A ph \in PhoneNumbers : Cardinality(C27_UsersOf(ph)) <= 1)
  /\ [][\A p \in Procs :
          /\ pc[p] = "cu_find"
          /\ pc'[p] # "cu_find"
          /\ C27_UsersOf(uarg[p].phoneNumber) # {}
          /\ result'[p].kind # "throw"
          => /\ session'[p].user \in C27_UsersOf(uarg[p].phoneNumber)
             /\ session'[p].isNewUser = FALSE
             /\ UNCHANGED <<users, profile>>]_vars

(* the part of C28 the code keeps: a request of onboardUser writes a user  *)
(* row only in the step after its broadcast returned a signature, the      *)
(* steps up to the broadcast (where signAndSendTransaction can throw)      *)
(* write no user row, and success:true is returned only with the           *)
(* signature broadcast and the row updated                                 *)
C28_UpdateOnlyAfterBroadcast ==
  /\ [][\A p \in Procs :
          /\ op'[p] = "onboardUser"
          /\ pc[p] # pc'[p]
          => IF pc[p] = "ob_update"
             THEN signature[p] # NoSig /\ signature[p] \in broadcast
             ELSE UNCHANGED <<users, profile>>]_vars
  /\ [](\A p \in Procs :
          /\ op[p] = "onboardUser"
          /\ pc[p] = "done"
          => /\ calls[p].threw = "signAndSendTransaction" => signature[p] = NoSig
             /\ result[p].success
                => /\ result[p].signature = signature[p]
                   /\ signature[p] \in broadcast
                   /\ uarg[p].userId \in users
                   /\ profile[uarg[p].userId].primary_address = uarg[p].address)

(* C28: onboardUser updates the user's row only after                      *)
(* signAndSendTransaction returned a signature, a throwing broadcast       *)
(* leaves every user row as it was, success:true means the broadcast       *)
(* succeeded and the row was updated, and a request that returns           *)
(* success:false 'User not found' has broadcast no transaction.            *)
C28_NotFoundMeansNoBroadcast ==
  /\ C28_UpdateOnlyAfterBroadcast
  /\ [](\A p \in Procs :
          /\ op[p] = "onboardUser"
          /\ pc[p] = "done"
          /\ result[p] = UserNotFound
          => /\ signature[p] = NoSig
             /\ calls[p].sendRawTransaction = 0)

(* the request of p came with phoneNumber and idToken and verifyIdToken    *)
(* resolved for that idToken                                               *)
C29_IdTokenVerified(p) ==
  /\ uarg[p].phoneNumber # NoId
  /\ session[p].idToken = "genuine"
  /\ session[p].verified

(* C29: a POST /user/create request reaches createUser (its lookup, its    *)
(* insert) and generateTokenPair only after verifyIdToken succeeded for    *)
(* its idToken; a request without phoneNumber, without idToken or with a   *)
(* rejected idToken ends with an error, no user created or returned, and   *)
(* no tokens issued.                                                       *)
C29_TokensOnlyAfterVerifiedIdToken ==
  /\ [](\A p \in Procs :
          op[p] = "POST /user/create"
          => /\ pc[p] \in {"cu_find", "cu_insert", "tokens"} => C29_IdTokenVerified(p)
             /\ session[p].tokens # NoTokenPair
                => /\ C29_IdTokenVerified(p)
                   /\ session[p].user \in users
                   /\ session[p].tokens.accessToken.sub = session[p].user
                   /\ {session[p].tokens.accessToken,
                       session[p].tokens.refreshToken} \subseteq issued
             /\ pc[p] = "done" /\ ~C29_IdTokenVerified(p)
                => /\ result[p].kind = "throw"
                   /\ session[p].user = NoUser
                   /\ session[p].tokens = NoTokenPair)
  /\ [][\A p \in Procs :
          /\ op'[p] = "POST /user/create"
          /\ pc[p] # pc'[p]
          /\ \/ <<users, profile>>' # <<users, profile>>
             \/ issued' # issued
             \/ session'[p].tokens # session[p].tokens
          => C29_IdTokenVerified(p)]_vars

(* a request with a verified idToken created a user and was given tokens *)
C29_Witness ==
  \E p \in Procs :
    /\ op[p] = "POST /user/create"
    /\ pc[p] = "done"
    /\ C29_IdTokenVerified(p)
    /\ session[p].isNewUser
    /\ session[p].user \in users
    /\ session[p].tokens # NoTokenPair
    /\ \E q \in Procs \ {p} :
         /\ op[q] = "POST /user/create"
         /\ pc[q] = "done"
         /\ session[q].idToken = "bogus"
         /\ result[q] = InternalServerError("Invalid idToken")

(* C30: the guard's verifyAccessToken accepts only a token of type         *)
(* 'access' signed with the access secret, verifyRefreshToken only one of  *)
(* type 'refresh' signed with the refresh secret, so a token issued as     *)
(* one kind is never accepted as the other; each rejection is an           *)
(* UnauthorizedException; and rotateTokens generates a pair only for a     *)
(* refresh token that verified.                                            *)
C30_TokenKindsKeptApart ==
  /\ [](\A p \in Procs :
          /\ op[p] = "canActivate" /\ pc[p] = "done"
             => /\ result[p].kind = "return"
                   => /\ session[p].presented \in issued
                      /\ session[p].presented.type = "access"
                      /\ session[p].presented.secret = jwtConfig.access
                /\ result[p].kind # "return"
                   => result[p] \in {Unauthorized("Missing access token"),
                                     Unauthorized("Invalid access token")}
          /\ op[p] = "rotateTokens" /\ (pc[p] = "tokens" \/ session[p].tokens # NoTokenPair)
             => /\ session[p].presented \in issued
                /\ session[p].presented.type = "refresh"
                /\ session[p].presented.secret = jwtConfig.refresh
          /\ op[p] = "rotateTokens" /\ pc[p] = "done" /\ session[p].tokens = NoTokenPair
             => \/ result[p] = Unauthorized("Invalid refresh token")
                \/ /\ result[p] = SecretNotConfigured
                   /\ session[p].presented.type = "refresh"
                   /\ session[p].presented.secret = jwtConfig.refresh)
  /\ [][\A p \in Procs :
          /\ op'[p] = "rotateTokens"
          /\ pc[p] # pc'[p]
          /\ (issued' # issued \/ session'[p].tokens # session[p].tokens)
          => /\ session[p].presented.type = "refresh"
             /\ session[p].presented.secret = jwtConfig.refresh
             /\ session'[p].tokens.refreshToken.sub = session[p].presented.sub]_vars

(* with one secret for both kinds, the guard refused an issued refresh     *)
(* token, while a rotation with a refresh token was given a new pair       *)
C30_Witness ==
  /\ jwtConfig.access = jwtConfig.refresh
  /\ op["p1"] = "canActivate" /\ pc["p1"] = "done"
  /\ session["p1"].presented \in issued
  /\ session["p1"].presented.type = "refresh"
  /\ result["p1"] = Unauthorized("Invalid access token")
  /\ op["p2"] = "rotateTokens" /\ pc["p2"] = "done"
  /\ session["p2"].presented.type = "refresh"
  /\ session["p2"].tokens # NoTokenPair

====
